---- MODULE Spec2Model ----
(***************************************************************************)
(* Verification model of terraform-provider-inwx: the JSON-RPC client, the *)
(* provider configuration and the resource handlers.                       *)
(*                                                                         *)
(* The module holds several specifications over one set of variables; each *)
(* specification drives one part of the program and leaves the variables   *)
(* of the other parts at their initial value.                              *)
(*   SpecClient     api.Client._Call and its wrappers, called concurrently *)
(*   SpecConfigure  the provider's Configure, then RPCs of resources       *)
(*   SpecResolve    the attribute resolution at the start of Configure     *)
(*   SpecCredentials the credentials check of Configure, then Configure    *)
(*   SpecParse      composite IDs built by create handlers and parsed back *)
(*   SpecNameserver the handlers of the nameserver zone resource           *)
(*   SpecRecord     the handlers of the nameserver record resource         *)
(*   SpecContact    the handlers of the domain contact resource            *)
(*   SpecImport     import by ID of records, zones and glue records        *)
(*   SpecDnssec     the handlers and the importer of the DNSSEC key        *)
(*   SpecDomain     the handlers and the importer of the domain resource   *)
(*   SpecImmutable  updates of a tracked contact and of a tracked domain   *)
(*   SpecGlue       Update and Delete of the glue record resource          *)
(*   SpecNoUpdate   Update of the framework resources without updates      *)
(*   SpecRname      Read of a nameserver zone with any SOA rname           *)
(***************************************************************************)
EXTENDS Integers, Sequences, FiniteSets, TLC

VARIABLES
    mu,         \* Client.mu: the goroutine holding the mutex, or NoProc
    cpc,        \* per goroutine: its position inside _Call
    creq,       \* per goroutine: the call it is executing (wrapper, method, expectResponseBody)
    cres,       \* per goroutine: what its last call returned
    inflight,   \* goroutines whose HTTP exchange is on the wire (httpClient.Do running)
    ncalls,     \* per goroutine: number of calls started (bounded by MaxCalls)
    posts,      \* per goroutine: HTTP POSTs its current call has put on the wire
    config,     \* provider configuration: implementation, attributes, environment
    cfgpc,      \* position of the provider's Configure
    client,     \* TRUE once Configure handed the client to the resources
    resolved,   \* the value Configure resolved for the attribute config names
    rpcs,       \* the RPCs sent, in order: [method, params, outcome]; in a handler
                \* specification those of the last handler invocation
    diags,      \* diagnostics of the last operation: "none", "error" or "panic"
    idX,        \* first component a create handler puts into a composite ID
    idY,        \* second component
    compositeId,\* the ID string built from them, or the ID string given to an
                \* import, as a sequence of characters
    parsed,     \* result of the last ID parse function applied to compositeId
    state,      \* Terraform state of the managed resource (id empty: not tracked)
    remote,     \* what the registrar holds
    op,         \* the last handler invocation: its name, the prior state, the plan
    submitted,  \* the values given to the last successful create
    nops        \* number of handler invocations (bounded by MaxOps)

ClientVars == <<mu, cpc, creq, cres, inflight, ncalls, posts>>
ConfigVars == <<config, cfgpc, client, resolved>>
RpcVars == <<rpcs, diags>>
ParseVars == <<idX, idY, compositeId, parsed>>
HandlerVars == <<state, remote, op, submitted, nops>>
vars == <<ClientVars, ConfigVars, RpcVars, ParseVars, HandlerVars>>
NotClientVars == <<ConfigVars, RpcVars, ParseVars, HandlerVars>>

----------------------------------------------------------------------------
(* Bounds *)

NumProcs == 2
MaxCalls == 2
MaxRpcs == 4
MaxLen == 2
MaxId == 11
MaxOps == 3

----------------------------------------------------------------------------
(* Program constants *)

COMMAND_SUCCESSFUL == 1000
COMMAND_SUCCESSFUL_PENDING == 1001

----------------------------------------------------------------------------
(* Parts of the state a specification does not drive *)

IdleClient ==
    /\ mu = 0
    /\ cpc = <<>>
    /\ creq = <<>>
    /\ cres = <<>>
    /\ inflight = {}
    /\ ncalls = <<>>
    /\ posts = <<>>

IdleConfig ==
    /\ config = <<>>
    /\ cfgpc = "none"
    /\ client = FALSE
    /\ resolved = <<>>

IdleRpc ==
    /\ rpcs = <<>>
    /\ diags = "none"

IdleParse ==
    /\ idX = <<>>
    /\ idY = <<>>
    /\ compositeId = <<>>
    /\ parsed = <<>>

IdleHandler ==
    /\ state = <<>>
    /\ remote = <<>>
    /\ op = <<>>
    /\ submitted = <<>>
    /\ nops = 0

----------------------------------------------------------------------------
(* api.Client: src/inwx/internal/api/client.go *)

Procs == 1..NumProcs
NoProc == 0

Wrappers == {"Call", "CallNoParams", "CallNoResponseBody", "Logout"}

\* The wrappers of _Call: which method and expectResponseBody they pass on.
\* Logout -> CallNoParams -> Call -> _Call(..., true);
\* CallNoResponseBody -> _Call(..., false).
WrapperExpectBody(w) == w # "CallNoResponseBody"
WrapperMethod(w) == IF w = "Logout" THEN "account.logout" ELSE "rpc"

NoReq == [wrapper |-> "none", method |-> "none", expectResponseBody |-> FALSE]
NoRes == [err |-> "none", response |-> FALSE]

InitClient ==
    /\ mu = NoProc
    /\ cpc = [p \in Procs |-> "idle"]
    /\ creq = [p \in Procs |-> NoReq]
    /\ cres = [p \in Procs |-> NoRes]
    /\ inflight = {}
    /\ ncalls = [p \in Procs |-> 0]
    /\ posts = [p \in Procs |-> 0]

\* c.mu.Lock() returns only when no goroutine holds the mutex.
MuFree_NoMutex(p) == TRUE
MuFree(p) == mu = NoProc

\* A resource operation enters one of the wrappers; it blocks in c.mu.Lock().
CallEnter(p) ==
    /\ cpc[p] = "idle"
    /\ ncalls[p] < MaxCalls
    /\ \E w \in Wrappers :
         creq' = [creq EXCEPT ![p] = [wrapper |-> w, method |-> WrapperMethod(w),
                                      expectResponseBody |-> WrapperExpectBody(w)]]
    /\ cpc' = [cpc EXCEPT ![p] = "lock"]
    /\ ncalls' = [ncalls EXCEPT ![p] = @ + 1]
    /\ cres' = [cres EXCEPT ![p] = NoRes]
    /\ posts' = [posts EXCEPT ![p] = 0]
    /\ UNCHANGED <<mu, inflight>>
    /\ UNCHANGED NotClientVars

\* c.mu.Lock(); defer c.mu.Unlock()
CallLock(p) ==
    /\ cpc[p] = "lock"
    /\ MuFree(p)
    /\ mu' = p
    /\ cpc' = [cpc EXCEPT ![p] = "marshal"]
    /\ UNCHANGED <<creq, cres, inflight, ncalls, posts>>
    /\ UNCHANGED NotClientVars

\* Every return of _Call runs the deferred c.mu.Unlock().
CallReturn_UnlockOnSuccessOnly(p, err, hasResponse) ==
    /\ cpc' = [cpc EXCEPT ![p] = "idle"]
    /\ cres' = [cres EXCEPT ![p] = [err |-> err, response |-> hasResponse]]
    /\ mu' = IF mu = p /\ err = "none" THEN NoProc ELSE mu
    /\ inflight' = inflight \ {p}

CallReturn(p, err, hasResponse) ==
    /\ cpc' = [cpc EXCEPT ![p] = "idle"]
    /\ cres' = [cres EXCEPT ![p] = [err |-> err, response |-> hasResponse]]
    /\ mu' = IF mu = p THEN NoProc ELSE mu
    /\ inflight' = inflight \ {p}

\* json.Marshal(requestBody)
CallMarshal(p) ==
    /\ cpc[p] = "marshal"
    /\ \/ /\ cpc' = [cpc EXCEPT ![p] = "save1"]
          /\ UNCHANGED <<mu, cres, inflight>>
       \/ CallReturn(p, "marshal", FALSE)
    /\ UNCHANGED <<creq, ncalls, posts>>
    /\ UNCHANGED NotClientVars

\* err = c.jar.Save() before the request is built
CallSaveBefore(p) ==
    /\ cpc[p] = "save1"
    /\ \/ /\ cpc' = [cpc EXCEPT ![p] = "post"]
          /\ UNCHANGED <<mu, cres, inflight>>
       \/ CallReturn(p, "save cookies", FALSE)
    /\ UNCHANGED <<creq, ncalls, posts>>
    /\ UNCHANGED NotClientVars

\* http.NewRequest and the start of c.httpClient.Do(request): the request goes on the wire
CallPost(p) ==
    /\ cpc[p] = "post"
    /\ \/ /\ cpc' = [cpc EXCEPT ![p] = "wait"]
          /\ inflight' = inflight \cup {p}
          /\ posts' = [posts EXCEPT ![p] = @ + 1]
          /\ UNCHANGED <<mu, cres>>
       \/ /\ CallReturn(p, "create request", FALSE)
          /\ UNCHANGED posts
    /\ UNCHANGED <<creq, ncalls>>
    /\ UNCHANGED NotClientVars

\* defer c.mu.Unlock(): the mutex stays with the goroutine until _Call returns.
HoldLock_UnlockAfterDo(p) == mu' = IF mu = p THEN NoProc ELSE mu
HoldLock(p) == mu' = mu

\* if err != nil { return nil, ... "could not execute rpc request" }: the
\* request is not sent again.
ExecuteFailed_Retry(p) ==
    /\ cpc' = [cpc EXCEPT ![p] = "post"]
    /\ inflight' = inflight \ {p}
    /\ UNCHANGED <<mu, cres>>

ExecuteFailed(p) == CallReturn(p, "execute request", FALSE)

\* c.httpClient.Do(request) returns: the response arrived or the transport failed
CallResponse(p) ==
    /\ cpc[p] = "wait"
    /\ \/ /\ cpc' = [cpc EXCEPT ![p] = "decode"]
          /\ inflight' = inflight \ {p}
          /\ HoldLock(p)
          /\ UNCHANGED cres
       \/ ExecuteFailed(p)
    /\ UNCHANGED <<creq, ncalls, posts>>
    /\ UNCHANGED NotClientVars

\* if expectResponseBody { json.NewDecoder(post.Body).Decode(&response) }
CallDecode(p) ==
    /\ cpc[p] = "decode"
    /\ \/ /\ cpc' = [cpc EXCEPT ![p] = "save2"]
          /\ UNCHANGED <<mu, cres, inflight>>
       \/ /\ creq[p].expectResponseBody
          /\ CallReturn(p, "unmarshal", FALSE)
    /\ UNCHANGED <<creq, ncalls, posts>>
    /\ UNCHANGED NotClientVars

\* err = c.jar.Save() after the response; then return response or nil
CallSaveAfter_KeepsResponse(p) ==
    /\ cpc[p] = "save2"
    /\ \/ CallReturn(p, "none", creq[p].expectResponseBody)
       \/ CallReturn(p, "save cookies", creq[p].expectResponseBody)
    /\ UNCHANGED <<creq, ncalls, posts>>
    /\ UNCHANGED NotClientVars

CallSaveAfter(p) ==
    /\ cpc[p] = "save2"
    /\ \/ CallReturn(p, "none", creq[p].expectResponseBody)
       \/ CallReturn(p, "save cookies", FALSE)
    /\ UNCHANGED <<creq, ncalls, posts>>
    /\ UNCHANGED NotClientVars

NextClient ==
    \E p \in Procs :
        \/ CallEnter(p)
        \/ CallLock(p)
        \/ CallMarshal(p)
        \/ CallSaveBefore(p)
        \/ CallPost(p)
        \/ CallResponse(p)
        \/ CallDecode(p)
        \/ CallSaveAfter(p)

InitSpecClient == InitClient /\ IdleConfig /\ IdleRpc /\ IdleParse /\ IdleHandler

SpecClient == InitSpecClient /\ [][NextClient]_vars

\* Scheduling: a goroutine inside _Call keeps running, every HTTP exchange
\* ends (with a response or an error), and sync.Mutex hands the lock to a
\* goroutine that keeps waiting for it. Nothing obliges a resource operation
\* to start a call.
FairClient ==
    \A p \in Procs :
        /\ SF_vars(CallLock(p))
        /\ WF_vars(CallMarshal(p))
        /\ WF_vars(CallSaveBefore(p))
        /\ WF_vars(CallPost(p))
        /\ WF_vars(CallResponse(p))
        /\ WF_vars(CallDecode(p))
        /\ WF_vars(CallSaveAfter(p))

SpecClientFair == SpecClient /\ FairClient

----------------------------------------------------------------------------
(* RPC outcomes as the client returns them to its caller *)

\* Status codes the registrar answers with: success, pending success, the
\* account-locked code the configuration tests for, and one other error code.
Codes == {COMMAND_SUCCESSFUL, COMMAND_SUCCESSFUL_PENDING, 2200, 2303}

\* (Response, error) of Client.Call: a transport/serialization error with a nil
\* response, or a decoded response carrying a status code.
TransportError == [err |-> TRUE, code |-> 0]
Outcomes == {TransportError} \cup {[err |-> FALSE, code |-> c] : c \in Codes}

\* Response.Code(): r["code"].(float64). On the nil response of a failed call
\* the type assertion panics.
CodePanics(o) == o.err
Code(o) == o.code

NoParams == [k \in {} |-> ""]
Rpc(method, params, o) == [method |-> method, params |-> params, outcome |-> o]

Methods(log) == {log[i].method : i \in 1..Len(log)}
CountMethod(log, m) == Cardinality({i \in 1..Len(log) : log[i].method = m})

----------------------------------------------------------------------------
(* Provider configuration:                                                 *)
(*   "sdk"        configureContext, src/unnamed/part_012                   *)
(*   "framework"  inwxProvider.Configure, src/internal/provider/provider.go *)

Null == "<null>"
Unset == "<unset>"
CfgValues == {Null, "", "tan"}
EnvValues == {Unset, "", "envtan"}
Impls == {"sdk", "framework"}

\* schema.EnvDefaultFunc(k, nil) as the default of an SDK attribute: the
\* configured value, else the environment variable when it is non-empty.
SdkAttr(cfgv, envv) ==
    IF cfgv # Null THEN cfgv
    ELSE IF envv # Unset /\ envv # "" THEN envv
    ELSE Null

\* data.GetOk(k): the value and whether it is set to a non-zero value.
SdkGetOk(v) == v # Null /\ v # ""

\* GetEnvDefault(key, defVal)
GetEnvDefault(envv, defVal) == IF envv = Unset THEN defVal ELSE envv

\* tan := GetEnvDefault("INWX_TAN", ""); if !config.Tan.IsNull() { tan = config.Tan.ValueString() }
FrameworkTan(c) == IF c.tan # Null THEN c.tan ELSE GetEnvDefault(c.envTan, "")

\* The TAN the configuration would send to account.unlock.
EffectiveTan(c) ==
    IF c.impl = "sdk"
    THEN (IF SdkAttr(c.tan, c.envTan) = Null THEN "" ELSE SdkAttr(c.tan, c.envTan))
    ELSE FrameworkTan(c)

\* sdk:       if tan, ok := data.GetOk("tan"); ok && call.Code() == 2200 && tan != ""
\* framework: if call != nil && call.Code() == 2200 && tan != ""
\* Go evaluates && left to right and stops at the first false operand.
InfoPanics(c, o) ==
    /\ c.impl = "sdk"
    /\ SdkGetOk(SdkAttr(c.tan, c.envTan))
    /\ CodePanics(o)

UnlockWanted_IgnoreTan(c, o) ==
    /\ ~o.err
    /\ Code(o) = 2200

UnlockWanted(c, o) ==
    IF c.impl = "sdk"
    THEN /\ SdkGetOk(SdkAttr(c.tan, c.envTan))
         /\ ~CodePanics(o)
         /\ Code(o) = 2200
         /\ SdkAttr(c.tan, c.envTan) # ""
    ELSE /\ ~o.err
         /\ Code(o) = 2200
         /\ FrameworkTan(c) # ""

\* if call.Code() != api.COMMAND_SUCCESSFUL { ... return }   (account.login, account.unlock)
LoginAccepted_AlsoPending(o) == Code(o) \in {COMMAND_SUCCESSFUL, COMMAND_SUCCESSFUL_PENDING}
LoginAccepted(o) == Code(o) = COMMAND_SUCCESSFUL

InitConfigure ==
    /\ config \in [impl : Impls, tan : CfgValues, envTan : EnvValues]
    /\ cfgpc = "start"
    /\ client = FALSE
    /\ resolved = <<>>
    /\ rpcs = <<>>
    /\ diags = "none"

\* url.Parse and api.NewClient: on an error a diagnostic is added and no client is made.
ConfigureStart ==
    /\ cfgpc = "start"
    /\ \/ /\ cfgpc' = "login"
          /\ diags' = diags
       \/ /\ cfgpc' = "failed"
          /\ diags' = "error"
    /\ UNCHANGED <<config, client, resolved, rpcs>>
    /\ UNCHANGED <<ClientVars, ParseVars, HandlerVars>>

\* call, err := client.Call(ctx, "account.login", loginParams)
ConfigureLogin ==
    /\ cfgpc = "login"
    /\ \E o \in Outcomes :
         /\ rpcs' = Append(rpcs, Rpc("account.login", NoParams, o))
         /\ IF o.err \/ ~LoginAccepted(o)
            THEN /\ cfgpc' = "failed"
                 /\ diags' = "error"
            ELSE /\ cfgpc' = "info"
                 /\ diags' = diags
    /\ UNCHANGED <<config, client, resolved>>
    /\ UNCHANGED <<ClientVars, ParseVars, HandlerVars>>

\* call, err = client.Call(ctx, "account.info", ...): err is not looked at.
\* Without the unlock branch the function falls through to handing out the client.
ConfigureInfo ==
    /\ cfgpc = "info"
    /\ \E o \in Outcomes :
         /\ rpcs' = Append(rpcs, Rpc("account.info", NoParams, o))
         /\ IF InfoPanics(config, o)
            THEN /\ cfgpc' = "crashed"
                 /\ diags' = "panic"
                 /\ client' = client
            ELSE IF UnlockWanted(config, o)
            THEN /\ cfgpc' = "unlock"
                 /\ diags' = diags
                 /\ client' = client
            ELSE /\ cfgpc' = "done"
                 /\ diags' = diags
                 /\ client' = TRUE
    /\ UNCHANGED <<config, resolved>>
    /\ UNCHANGED <<ClientVars, ParseVars, HandlerVars>>

\* call, err := client.Call(ctx, "account.unlock", {"tan": tan})
ConfigureUnlock ==
    /\ cfgpc = "unlock"
    /\ \E o \in Outcomes :
         /\ rpcs' = Append(rpcs, Rpc("account.unlock", [tan |-> EffectiveTan(config)], o))
         /\ IF o.err \/ ~LoginAccepted(o)
            THEN /\ cfgpc' = "failed"
                 /\ diags' = "error"
                 /\ client' = client
            ELSE /\ cfgpc' = "done"
                 /\ diags' = diags
                 /\ client' = TRUE
    /\ UNCHANGED <<config, resolved>>
    /\ UNCHANGED <<ClientVars, ParseVars, HandlerVars>>

\* A resource handler sends an RPC through the client it was configured with
\* (m.(*api.Client) / r.client); without a client there is none to send on.
ResourceRpc ==
    /\ client
    /\ Len(rpcs) < MaxRpcs
    /\ \E o \in Outcomes :
         rpcs' = Append(rpcs, Rpc("resource", NoParams, o))
    /\ UNCHANGED <<config, cfgpc, client, resolved, diags>>
    /\ UNCHANGED <<ClientVars, ParseVars, HandlerVars>>

NextConfigure ==
    \/ ConfigureStart
    \/ ConfigureLogin
    \/ ConfigureInfo
    \/ ConfigureUnlock
    \/ ResourceRpc

InitSpecConfigure == InitConfigure /\ IdleClient /\ IdleParse /\ IdleHandler

SpecConfigure == InitSpecConfigure /\ [][NextConfigure]_vars

----------------------------------------------------------------------------
(* Resolution of the provider attributes api_url, username, password, tan  *)
(* from the configuration and the environment:                             *)
(*   "sdk"        Provider() schema and data.Get, src/unnamed/part_012     *)
(*   "framework"  inwxProvider.Configure, src/internal/provider/provider.go *)

ProviderAttrs == {"api_url", "username", "password", "tan"}
DefaultApiUrl == "https://api.domrobot.com/jsonrpc/"

\* schema.EnvDefaultFunc(k, dv): the environment variable when it is
\* non-empty, else dv (Null for nil).
EnvDefaultFunc(envv, dv) == IF envv # Unset /\ envv # "" THEN envv ELSE dv

\* data.Get(attr).(string): the configured value, else the DefaultFunc of
\* the schema; the zero value "" when both give nothing.
SdkGet(attr, cfgv, envv) ==
    IF cfgv # Null THEN cfgv
    ELSE LET v == EnvDefaultFunc(envv, IF attr = "api_url" THEN DefaultApiUrl ELSE Null)
         IN IF v = Null THEN "" ELSE v

\* os.Getenv(key): "" for a variable that is not set
Getenv(envv) == IF envv = Unset THEN "" ELSE envv

\* apiUrl := GetEnvDefault("INWX_API_URL", default); username := os.Getenv(...);
\* password := os.Getenv(...); tan := GetEnvDefault("INWX_TAN", "");
\* each replaced by the configured value if !config.X.IsNull().
FrameworkGet(attr, cfgv, envv) ==
    IF cfgv # Null THEN cfgv
    ELSE IF attr = "api_url" THEN GetEnvDefault(envv, DefaultApiUrl)
    ELSE IF attr = "tan" THEN GetEnvDefault(envv, "")
    ELSE Getenv(envv)

\* CfgValues and EnvValues stand for a null, an empty and a non-empty value
\* of whichever attribute is resolved.
InitResolve ==
    /\ config \in [impl : Impls, attr : ProviderAttrs, cfg : CfgValues, env : EnvValues]
    /\ cfgpc = "start"
    /\ client = FALSE
    /\ resolved = <<>>
    /\ rpcs = <<>>
    /\ diags = "none"

\* The part of Configure that determines the effective value of an attribute.
Resolve ==
    /\ cfgpc = "start"
    /\ resolved' = IF config.impl = "sdk"
                   THEN SdkGet(config.attr, config.cfg, config.env)
                   ELSE FrameworkGet(config.attr, config.cfg, config.env)
    /\ cfgpc' = "resolved"
    /\ UNCHANGED <<config, client, rpcs, diags>>
    /\ UNCHANGED <<ClientVars, ParseVars, HandlerVars>>

NextResolve ==
    \/ Resolve

InitSpecResolve == InitResolve /\ IdleClient /\ IdleParse /\ IdleHandler

SpecResolve == InitSpecResolve /\ [][NextResolve]_vars

----------------------------------------------------------------------------
(* The credentials check of inwxProvider.Configure,                        *)
(* src/internal/provider/provider.go, followed by the rest of Configure.   *)

Unknown == "<unknown>"
CredCfgValues == {Null, Unknown, "", "user"}
CredEnvValues == {Unset, "", "envuser"}

\* if config.Username.IsUnknown() { AddAttributeError } and the same for the
\* password; if resp.Diagnostics.HasError() { return }
UnknownCredentials(c) == c.username = Unknown \/ c.password = Unknown

\* if username == "" { AddAttributeError }; if password == "" { AddAttributeError };
\* if resp.Diagnostics.HasError() { return }
MissingCredentials_UsernameOnly(username, password) == username = ""
MissingCredentials(username, password) == username = "" \/ password = ""

InitCredentials ==
    /\ config \in [impl : {"framework"}, tan : {Null, "tan"}, envTan : {Unset},
                   username : CredCfgValues, envUsername : CredEnvValues,
                   password : CredCfgValues, envPassword : CredEnvValues]
    /\ cfgpc = "credentials"
    /\ client = FALSE
    /\ resolved = <<>>
    /\ rpcs = <<>>
    /\ diags = "none"

\* Configure from its start up to url.Parse: the unknown-value checks, the
\* resolution of username and password, the empty-value checks.
ConfigureCredentials ==
    /\ cfgpc = "credentials"
    /\ LET username == FrameworkGet("username", config.username, config.envUsername)
           password == FrameworkGet("password", config.password, config.envPassword)
       IN IF UnknownCredentials(config) \/ MissingCredentials(username, password)
          THEN /\ cfgpc' = "failed"
               /\ diags' = "error"
          ELSE /\ cfgpc' = "start"
               /\ diags' = diags
    /\ UNCHANGED <<config, client, resolved, rpcs>>
    /\ UNCHANGED <<ClientVars, ParseVars, HandlerVars>>

NextCredentials ==
    \/ ConfigureCredentials
    \/ ConfigureStart
    \/ ConfigureLogin
    \/ ConfigureInfo
    \/ ConfigureUnlock
    \/ ResourceRpc

InitSpecCredentials == InitCredentials /\ IdleClient /\ IdleParse /\ IdleHandler

SpecCredentials == InitSpecCredentials /\ [][NextCredentials]_vars

----------------------------------------------------------------------------
(* Strings are sequences of one-character strings.                         *)

Chars == {"a", ".", ":"}

RECURSIVE StringsUpTo(_)
StringsUpTo(n) ==
    IF n = 0 THEN {<<>>}
    ELSE LET shorter == StringsUpTo(n - 1)
         IN shorter \cup {Append(t, c) : t \in {u \in shorter : Len(u) = n - 1}, c \in Chars}

\* Index of the first occurrence of character c in s, 0 when there is none.
IndexOf(s, c) ==
    IF \E i \in 1..Len(s) : s[i] = c
    THEN CHOOSE i \in 1..Len(s) : s[i] = c /\ \A j \in 1..(i - 1) : s[j] # c
    ELSE 0

\* strings.Split(s, sep) for a one-character separator: the substrings
\* between the separators, <<s>> when s holds none.
RECURSIVE Split(_, _)
Split(s, sep) ==
    LET i == IndexOf(s, sep)
    IN IF i = 0 THEN <<s>>
       ELSE <<SubSeq(s, 1, i - 1)>> \o Split(SubSeq(s, i + 1, Len(s)), sep)

\* strconv.Itoa(n) for n >= 0, and %d of fmt.Sprintf
Digit(d) == CASE d = 0 -> "0" [] d = 1 -> "1" [] d = 2 -> "2" [] d = 3 -> "3" [] d = 4 -> "4"
              [] d = 5 -> "5" [] d = 6 -> "6" [] d = 7 -> "7" [] d = 8 -> "8" [] d = 9 -> "9"

RECURSIVE Itoa(_)
Itoa(n) == IF n < 10 THEN <<Digit(n)>> ELSE Append(Itoa(n \div 10), Digit(n % 10))

\* fmt.Sprintf("%s:%s", x, y) and x + ":" + y
Concat(x, y) == x \o <<":">> \o y

ParseError == [err |-> TRUE, first |-> <<>>, second |-> <<>>]
ParseOk(a, b) == [err |-> FALSE, first |-> a, second |-> b]

\* The check all four parse functions make on the parts.
PartsOk(parts) == Len(parts) = 2 /\ parts[1] # <<>> /\ parts[2] # <<>>

\* src/unnamed/part_013:14 and src/unnamed/part_019:246
resourceNameserverRecordParseId(id) ==
    LET parts == Split(id, ":")
    IN IF ~PartsOk(parts) THEN ParseError ELSE ParseOk(parts[1], parts[2])

\* src/unnamed/part_015:15 and src/internal/provider/resource_domain_contact.go:762
resourceNameserverParseId(id) ==
    LET parts == Split(id, ":")
    IN IF ~PartsOk(parts) THEN ParseError ELSE ParseOk(parts[1], parts[2])

\* src/inwx/internal/resource/resource_glue_record.go:13
resourceGlueRecordParseId(id) ==
    LET parts == Split(id, ":")
    IN IF ~PartsOk(parts) THEN ParseError ELSE ParseOk(parts[1], parts[2])

parseGlueRecordID_Swapped(id) ==
    LET parts == Split(id, ":")
    IN IF ~PartsOk(parts) THEN ParseError ELSE ParseOk(parts[2], parts[1])

\* src/internal/provider/resource_glue_record.go:273
parseGlueRecordID(id) ==
    LET parts == Split(id, ":")
    IN IF ~PartsOk(parts) THEN ParseError ELSE ParseOk(parts[1], parts[2])

ParseFunctions == {"resourceNameserverRecordParseId", "resourceNameserverParseId",
                   "resourceGlueRecordParseId", "parseGlueRecordID"}

ApplyParse(fn, id) ==
    CASE fn = "resourceNameserverRecordParseId" -> resourceNameserverRecordParseId(id)
      [] fn = "resourceNameserverParseId" -> resourceNameserverParseId(id)
      [] fn = "resourceGlueRecordParseId" -> resourceGlueRecordParseId(id)
      [] fn = "parseGlueRecordID" -> parseGlueRecordID(id)

NotParsed == [fn |-> "none", err |-> FALSE, first |-> <<>>, second |-> <<>>]

\* The components are the domain (host name) attribute, which no schema
\* validates, and strconv.Itoa of the identifier the registrar returned.
InitParse ==
    /\ idX \in StringsUpTo(MaxLen)
    /\ idY \in {Itoa(n) : n \in 0..MaxId}
    /\ compositeId = <<>>
    /\ parsed = NotParsed

\* d.SetId(domain + ":" + id) in a create handler
BuildId ==
    /\ compositeId = <<>>
    /\ compositeId' = Concat(idX, idY)
    /\ UNCHANGED <<idX, idY, parsed>>
    /\ UNCHANGED <<ClientVars, ConfigVars, RpcVars, HandlerVars>>

\* A later handler (update, delete, import) parses the ID of the state.
ParseId ==
    /\ compositeId # <<>>
    /\ \E fn \in ParseFunctions :
         LET r == ApplyParse(fn, compositeId)
         IN parsed' = [fn |-> fn, err |-> r.err, first |-> r.first, second |-> r.second]
    /\ UNCHANGED <<idX, idY, compositeId>>
    /\ UNCHANGED <<ClientVars, ConfigVars, RpcVars, HandlerVars>>

NextParse ==
    \/ BuildId
    \/ ParseId

InitSpecParse == InitParse /\ IdleClient /\ IdleConfig /\ IdleRpc /\ IdleHandler

SpecParse == InitSpecParse /\ [][NextParse]_vars

----------------------------------------------------------------------------
(* What the resource handlers share                                        *)

\* call.Code() is COMMAND_SUCCESSFUL or COMMAND_SUCCESSFUL_PENDING
AnswerOk(o) == ~o.err /\ Code(o) \in {COMMAND_SUCCESSFUL, COMMAND_SUCCESSFUL_PENDING}

\* The registrar applies a command it answers with 1000 or 1001 and no other;
\* it answers so only if the object the command needs is there (exists) or,
\* for a create, is not there yet.
\* To a handler the codes other than 1000 and 1001 are all alike; 2303 stands for them.
HandlerOutcomes == {o \in Outcomes : o.err \/ Code(o) # 2200}
OutcomesFor(objectOk) == {o \in HandlerOutcomes : AnswerOk(o) => objectOk}

\* parameters[k] of a request, def when the key was not sent
ParamOr(p, k, def) == IF k \in DOMAIN p THEN p[k] ELSE def

NoOp == [name |-> "none"]

\* strings.Join(parts, sep)
RECURSIVE Join(_, _)
Join(parts, sep) ==
    IF Len(parts) = 0 THEN <<>>
    ELSE IF Len(parts) = 1 THEN parts[1]
    ELSE parts[1] \o <<sep>> \o Join(Tail(parts), sep)

\* strings.ReplaceAll(s, old, new) for a non-empty old
RECURSIVE ReplaceAll(_, _, _)
ReplaceAll(s, old, new) ==
    IF Len(s) < Len(old) THEN s
    ELSE IF SubSeq(s, 1, Len(old)) = old
         THEN new \o ReplaceAll(SubSeq(s, Len(old) + 1, Len(s)), old, new)
         ELSE <<s[1]>> \o ReplaceAll(Tail(s), old, new)

----------------------------------------------------------------------------
(* Nameserver zone resource (SDK): src/unnamed/part_015                    *)

\* convert soa rname to email
transformRname(rname) ==
    LET labels == Split(rname, ".")
    IN IF Len(labels) < 2 THEN rname
       ELSE ReplaceAll(labels[1], <<"\\", ".">>, <<".">>) \o <<"@">> \o Join(Tail(labels), ".")

ZoneDomain == <<"a">>

\* Values of the attributes in a configuration. "" and <<>> are the zero
\* values d.GetOk reports as not set. web stands for the optional attributes
\* that are sent but never read back (web, mail, url_redirect_*).
NsPlans ==
    [domain : {ZoneDomain}, type : {"MASTER", "SLAVE"}, nameservers : {<<"n1", "n2">>},
     master_ip : {"", "ip"}, web : {"", "w"}, soa_mail : {<<>>, <<"a", "@", "x">>}]

\* The SOA rname the registrar gives a new zone: it is never told soa_mail.
Rnames == {<<"a", ".", "x">>, <<"h", ".", "x", ".", "y">>}
RoIds == {12}

NoState ==
    [id |-> <<>>, domain |-> <<>>, type |-> "", nameservers |-> <<>>, master_ip |-> "",
     web |-> "", soa_mail |-> <<>>]

NoZone ==
    [exists |-> FALSE, roId |-> 0, domain |-> <<>>, type |-> "", ns |-> <<>>, masterIp |-> "",
     web |-> "", rname |-> <<>>]

\* schema.ResourceData of a create or update: the planned attributes under the given ID
WithId(plan, id) ==
    [id |-> id, domain |-> plan.domain, type |-> plan.type, nameservers |-> plan.nameservers,
     master_ip |-> plan.master_ip, web |-> plan.web, soa_mail |-> plan.soa_mail]

Attributes(s) ==
    [domain |-> s.domain, type |-> s.type, nameservers |-> s.nameservers,
     master_ip |-> s.master_ip, web |-> s.web, soa_mail |-> s.soa_mail]

\* buildNameserverParameters: domain and type always, every other attribute
\* d.GetOk reports as set; soa_mail is not among them.
buildNameserverParameters(d) ==
    LET keys == {"domain", "type"}
                \cup (IF d.nameservers # <<>> THEN {"ns"} ELSE {})
                \cup (IF d.master_ip # "" THEN {"masterIp"} ELSE {})
                \cup (IF d.web # "" THEN {"web"} ELSE {})
    IN [k \in keys |-> CASE k = "domain" -> d.domain
                         [] k = "type" -> d.type
                         [] k = "ns" -> d.nameservers
                         [] k = "masterIp" -> d.master_ip
                         [] k = "web" -> d.web]

\* nameserver.create, applied by the registrar
RegistrarCreateZone(p, roId, rname) ==
    [exists |-> TRUE, roId |-> roId, domain |-> p.domain, type |-> p.type,
     ns |-> ParamOr(p, "ns", <<>>), masterIp |-> ParamOr(p, "masterIp", ""),
     web |-> ParamOr(p, "web", ""), rname |-> rname]

\* nameserver.update, applied by the registrar: the fields sent replace the stored ones
RegistrarUpdateZone(z, p) ==
    [z EXCEPT !.type = ParamOr(p, "type", @), !.ns = ParamOr(p, "ns", @),
              !.masterIp = ParamOr(p, "masterIp", @), !.web = ParamOr(p, "web", @)]

\* resourceNameserverRead on ResourceData d, with the outcome o of
\* nameserver.info and the zone z the registrar holds: the ResourceData and
\* the diagnostics it returns. A response has resData when the registrar
\* answered the command with success.
resourceNameserverRead(d, o, z) ==
    IF o.err THEN [d |-> d, diags |-> "none"]
    ELSE IF AnswerOk(o)
    THEN [d |-> [d EXCEPT !.nameservers = z.ns,
                          !.soa_mail = transformRname(z.rname),
                          !.domain = z.domain,
                          !.type = z.type,
                          !.master_ip = IF z.masterIp # "" THEN z.masterIp ELSE @],
          diags |-> "none"]
    ELSE [d |-> d, diags |-> "none"]

InfoRpc(d, o) == Rpc("nameserver.info", [domain |-> d.domain], o)

InitNameserver ==
    /\ state = NoState
    /\ remote = NoZone
    /\ op = NoOp
    /\ submitted = NoState
    /\ nops = 0
    /\ rpcs = <<>>
    /\ diags = "none"

\* resourceNameserverCreate -> createOrUpdateNameserver(ctx, d, m, true)
NsCreate ==
    /\ state.id = <<>>
    /\ nops < MaxOps
    /\ \E plan \in NsPlans, o \in OutcomesFor(~remote.exists) :
         LET d0 == WithId(plan, <<>>)
             parameters == buildNameserverParameters(d0)
             call == Rpc("nameserver.create", parameters, o)
         IN /\ op' = [name |-> "create", prior |-> state, plan |-> d0]
            /\ IF ~AnswerOk(o)
               THEN /\ rpcs' = <<call>>
                    /\ diags' = "error"
                    /\ UNCHANGED <<state, remote, submitted>>
               ELSE \E roId \in RoIds, rname \in Rnames, o2 \in HandlerOutcomes :
                      LET z == RegistrarCreateZone(parameters, roId, rname)
                          d == WithId(plan, Concat(plan.domain, Itoa(roId)))
                          r == resourceNameserverRead(d, o2, z)
                      IN /\ rpcs' = <<call, InfoRpc(d, o2)>>
                         /\ diags' = r.diags
                         /\ state' = r.d
                         /\ remote' = z
                         /\ submitted' = d0
    /\ nops' = nops + 1
    /\ UNCHANGED <<ClientVars, ConfigVars, ParseVars>>

\* resourceNameserverRead as the refresh of a tracked zone
NsRead ==
    /\ state.id # <<>>
    /\ nops < MaxOps
    /\ \E o \in OutcomesFor(remote.exists) :
         LET r == resourceNameserverRead(state, o, remote)
         IN /\ op' = [name |-> "read", prior |-> state, plan |-> state]
            /\ rpcs' = <<InfoRpc(state, o)>>
            /\ diags' = r.diags
            /\ state' = r.d
    /\ nops' = nops + 1
    /\ UNCHANGED <<remote, submitted>>
    /\ UNCHANGED <<ClientVars, ConfigVars, ParseVars>>

\* Plans Terraform updates a tracked zone in place for: domain and soa_mail
\* (ForceNew) as in the state, some other attribute different.
UpdatePlans(s) ==
    {p \in {WithId([q EXCEPT !.soa_mail = s.soa_mail], <<>>) : q \in NsPlans} :
        /\ p.domain = s.domain
        /\ Attributes(p) # Attributes(s)}

\* resourceNameserverUpdate -> createOrUpdateNameserver(ctx, d, m, false).
\* The SDK stores the ResourceData of an update also when it returns an error.
NsUpdate ==
    /\ state.id # <<>>
    /\ nops < MaxOps
    /\ \E plan \in UpdatePlans(state), o \in OutcomesFor(remote.exists) :
         LET d == WithId(plan, state.id)
             parameters == buildNameserverParameters(d)
             call == Rpc("nameserver.update", parameters, o)
         IN /\ op' = [name |-> "update", prior |-> state, plan |-> plan]
            /\ IF ~AnswerOk(o)
               THEN /\ rpcs' = <<call>>
                    /\ diags' = "error"
                    /\ state' = d
                    /\ UNCHANGED remote
               ELSE \E o2 \in HandlerOutcomes :
                      LET z == RegistrarUpdateZone(remote, parameters)
                          r == resourceNameserverRead(d, o2, z)
                      IN /\ rpcs' = <<call, InfoRpc(d, o2)>>
                         /\ diags' = r.diags
                         /\ state' = r.d
                         /\ remote' = z
    /\ submitted' = NoState
    /\ nops' = nops + 1
    /\ UNCHANGED <<ClientVars, ConfigVars, ParseVars>>

\* resourceNameserverDelete: client.CallNoResponseBody returns the error only,
\* the response and its status code are not decoded.
NsDelete ==
    /\ state.id # <<>>
    /\ nops < MaxOps
    /\ \E o \in OutcomesFor(remote.exists) :
         /\ op' = [name |-> "delete", prior |-> state, plan |-> NoState]
         /\ rpcs' = <<Rpc("nameserver.delete", [domain |-> state.domain], o)>>
         /\ IF o.err
            THEN /\ diags' = "error"
                 /\ UNCHANGED <<state, remote>>
            ELSE /\ diags' = "none"
                 /\ state' = NoState
                 /\ remote' = IF AnswerOk(o) THEN NoZone ELSE remote
    /\ submitted' = NoState
    /\ nops' = nops + 1
    /\ UNCHANGED <<ClientVars, ConfigVars, ParseVars>>

NextNameserver ==
    \/ NsCreate
    \/ NsRead
    \/ NsUpdate
    \/ NsDelete

InitSpecNameserver == InitNameserver /\ IdleClient /\ IdleConfig /\ IdleParse

SpecNameserver == InitSpecNameserver /\ [][NextNameserver]_vars

----------------------------------------------------------------------------
(* Nameserver record resource (SDK): src/unnamed/part_013                  *)

RecordDomains == {<<"a">>, <<"b">>}

\* Values of the attributes in a configuration. content stands for the
\* attributes sent when d.HasChange reports a change (type, content); ttl for
\* the optional ones sent when d.GetOk reports them set and changed (0 is the
\* zero value d.GetOk reports as not set, 3600 the schema default).
NrPlans == [domain : RecordDomains, content : {"c1", "c2"}, ttl : {0, 3600}]

NoRecordState == [id |-> <<>>, domain |-> <<>>, content |-> "", ttl |-> 0]

RecordWithId(plan, id) ==
    [id |-> id, domain |-> plan.domain, content |-> plan.content, ttl |-> plan.ttl]

RecordAttributes(s) == [domain |-> s.domain, content |-> s.content, ttl |-> s.ttl]

\* The registrar holds the zones of both domains, each with a record that
\* Terraform does not manage, and numbers new records consecutively.
FirstRecordId == 9
InitRecords ==
    {[id |-> 1, domain |-> <<"a">>, content |-> "c0", ttl |-> 3600],
     [id |-> 2, domain |-> <<"b">>, content |-> "c0", ttl |-> 3600]}

\* nameserver.createRecord, applied by the registrar (3600 is its default ttl)
RegistrarCreateRecord(p, id) ==
    [id |-> id, domain |-> p.domain, content |-> p.content, ttl |-> ParamOr(p, "ttl", 3600)]

\* nameserver.updateRecord, applied by the registrar to the record with the id sent
RegistrarUpdateRecord(recs, p) ==
    {IF Itoa(r.id) = p.id
     THEN [r EXCEPT !.content = ParamOr(p, "content", @), !.ttl = ParamOr(p, "ttl", @)]
     ELSE r : r \in recs}

\* nameserver.deleteRecord, applied by the registrar
RegistrarDeleteRecord(recs, p) == {r \in recs : Itoa(r.id) # p.id}

HasRecord(recs, id) == \E r \in recs : Itoa(r.id) = id

\* The entries of the record list of nameserver.info that the loop of
\* resourceNameserverRecordRead matches against d.Id()
MatchingRecords(d, recs) ==
    {r \in recs : r.domain = d.domain /\ Concat(d.domain, Itoa(r.id)) = d.id}

\* resourceNameserverRecordRead on ResourceData d, with the outcome o of
\* nameserver.info and the records the registrar holds: the ResourceData, the
\* diagnostics and the number of entries matched.
resourceNameserverRecordRead(d, o, recs) ==
    IF o.err \/ Code(o) # COMMAND_SUCCESSFUL
    THEN [d |-> d, diags |-> "error", matches |-> 0]
    ELSE LET m == MatchingRecords(d, recs)
         IN IF m = {} THEN [d |-> d, diags |-> "none", matches |-> 0]
            ELSE LET r == CHOOSE x \in m : TRUE
                 IN [d |-> [d EXCEPT !.content = r.content, !.ttl = r.ttl],
                     diags |-> "none", matches |-> Cardinality(m)]

\* if call.Code() != api.COMMAND_SUCCESSFUL { error }   (nameserver.updateRecord)
UpdateAccepted(o) == ~o.err /\ Code(o) = COMMAND_SUCCESSFUL

InitRecord ==
    /\ state = NoRecordState
    /\ remote = [records |-> InitRecords, nextId |-> FirstRecordId]
    /\ op = NoOp
    /\ submitted = NoRecordState
    /\ nops = 0
    /\ rpcs = <<>>
    /\ diags = "none"

\* resourceNameserverRecordCreate: the diagnostics of the read it ends with are dropped
NrCreate ==
    /\ state.id = <<>>
    /\ nops < MaxOps
    /\ \E plan \in NrPlans, o \in OutcomesFor(TRUE) :
         LET keys == {"domain", "content"} \cup (IF plan.ttl # 0 THEN {"ttl"} ELSE {})
             parameters == [k \in keys |-> CASE k = "domain" -> plan.domain
                                             [] k = "content" -> plan.content
                                             [] k = "ttl" -> plan.ttl]
             call == Rpc("nameserver.createRecord", parameters, o)
         IN IF ~AnswerOk(o)
            THEN /\ op' = [name |-> "create", prior |-> state, plan |-> plan, matches |-> 0]
                 /\ rpcs' = <<call>>
                 /\ diags' = "error"
                 /\ UNCHANGED <<state, remote, submitted>>
            ELSE \E o2 \in HandlerOutcomes :
                   LET recs == remote.records \cup {RegistrarCreateRecord(parameters, remote.nextId)}
                       d == RecordWithId(plan, Concat(plan.domain, Itoa(remote.nextId)))
                       r == resourceNameserverRecordRead(d, o2, recs)
                   IN /\ op' = [name |-> "create", prior |-> state, plan |-> plan,
                                matches |-> r.matches]
                      /\ rpcs' = <<call, InfoRpc(d, o2)>>
                      /\ diags' = "none"
                      /\ state' = r.d
                      /\ remote' = [records |-> recs, nextId |-> remote.nextId + 1]
                      /\ submitted' = RecordWithId(plan, <<>>)
    /\ nops' = nops + 1
    /\ UNCHANGED <<ClientVars, ConfigVars, ParseVars>>

\* resourceNameserverRecordRead as the refresh of a tracked record
NrRead ==
    /\ state.id # <<>>
    /\ nops < MaxOps
    /\ \E o \in OutcomesFor(TRUE) :
         LET r == resourceNameserverRecordRead(state, o, remote.records)
         IN /\ op' = [name |-> "read", prior |-> state, plan |-> RecordAttributes(state),
                      matches |-> r.matches]
            /\ rpcs' = <<InfoRpc(state, o)>>
            /\ diags' = r.diags
            /\ state' = r.d
    /\ nops' = nops + 1
    /\ UNCHANGED <<remote, submitted>>
    /\ UNCHANGED <<ClientVars, ConfigVars, ParseVars>>

\* resourceNameserverRecordUpdate. No attribute of the schema is ForceNew, so
\* Terraform updates in place for every difference, one in domain included.
\* The SDK stores the ResourceData of an update also when it returns an error.
NrUpdate ==
    /\ state.id # <<>>
    /\ nops < MaxOps
    /\ \E plan \in {p \in NrPlans : p # RecordAttributes(state)} :
         LET d == RecordWithId(plan, state.id)
             parsedId == resourceNameserverRecordParseId(d.id)
             keys == {"id"}
                     \cup (IF d.content # state.content THEN {"content"} ELSE {})
                     \cup (IF d.ttl # 0 /\ d.ttl # state.ttl THEN {"ttl"} ELSE {})
             parameters == [k \in keys |-> CASE k = "id" -> parsedId.second
                                             [] k = "content" -> d.content
                                             [] k = "ttl" -> d.ttl]
         IN /\ op' = [name |-> "update", prior |-> state, plan |-> plan, matches |-> 0]
            /\ state' = d
            /\ IF parsedId.err
               THEN /\ rpcs' = <<>>
                    /\ diags' = "error"
                    /\ UNCHANGED remote
               ELSE \E o \in OutcomesFor(HasRecord(remote.records, parsedId.second)) :
                      /\ rpcs' = <<Rpc("nameserver.updateRecord", parameters, o)>>
                      /\ diags' = IF UpdateAccepted(o) THEN "none" ELSE "error"
                      /\ remote' = IF AnswerOk(o)
                                   THEN [remote EXCEPT !.records = RegistrarUpdateRecord(@, parameters)]
                                   ELSE remote
    /\ submitted' = NoRecordState
    /\ nops' = nops + 1
    /\ UNCHANGED <<ClientVars, ConfigVars, ParseVars>>

\* The RPCs of resourceNameserverRecordDelete: nameserver.deleteRecord alone,
\* no nameserver.info before it.
DeleteRecordCalls_InfoFirst(d, parameters, o) ==
    <<InfoRpc(d, o), Rpc("nameserver.deleteRecord", parameters, o)>>

DeleteRecordCalls(d, parameters, o) == <<Rpc("nameserver.deleteRecord", parameters, o)>>

\* resourceNameserverRecordDelete
NrDelete ==
    /\ state.id # <<>>
    /\ nops < MaxOps
    /\ LET parsedId == resourceNameserverRecordParseId(state.id)
           parameters == [id |-> parsedId.second]
       IN /\ op' = [name |-> "delete", prior |-> state, plan |-> RecordAttributes(NoRecordState),
                    matches |-> 0]
          /\ IF parsedId.err
             THEN /\ rpcs' = <<>>
                  /\ diags' = "error"
                  /\ UNCHANGED <<state, remote>>
             ELSE \E o \in OutcomesFor(HasRecord(remote.records, parsedId.second)) :
                    /\ rpcs' = DeleteRecordCalls(state, parameters, o)
                    /\ IF AnswerOk(o)
                       THEN /\ diags' = "none"
                            /\ state' = NoRecordState
                            /\ remote' = [remote EXCEPT !.records = RegistrarDeleteRecord(@, parameters)]
                       ELSE /\ diags' = "error"
                            /\ UNCHANGED <<state, remote>>
    /\ submitted' = NoRecordState
    /\ nops' = nops + 1
    /\ UNCHANGED <<ClientVars, ConfigVars, ParseVars>>

\* The record the state tracks is deleted at the registrar by someone else
\* (web interface, another client): no handler runs, nothing is reported.
NrOutsideDelete ==
    /\ state.id # <<>>
    /\ LET parsedId == resourceNameserverRecordParseId(state.id)
       IN /\ ~parsedId.err
          /\ HasRecord(remote.records, parsedId.second)
          /\ remote' = [remote EXCEPT !.records = RegistrarDeleteRecord(@, [id |-> parsedId.second])]
    /\ op' = [name |-> "outside delete", prior |-> state, plan |-> RecordAttributes(state),
              matches |-> 0]
    /\ rpcs' = <<>>
    /\ diags' = "none"
    /\ UNCHANGED <<state, submitted, nops>>
    /\ UNCHANGED <<ClientVars, ConfigVars, ParseVars>>

NextRecord ==
    \/ NrCreate
    \/ NrRead
    \/ NrUpdate
    \/ NrDelete
    \/ NrOutsideDelete

InitSpecRecord == InitRecord /\ IdleClient /\ IdleConfig /\ IdleParse

SpecRecord == InitSpecRecord /\ [][NextRecord]_vars

----------------------------------------------------------------------------
(* Domain contact resource (framework):                                    *)
(* src/internal/provider/resource_domain_contact.go                        *)

\* strconv.Atoi(s) succeeds: s is the decimal form of a number
AtoiOk(s) == \E n \in 0..99 : Itoa(n) = s

\* name stands for the attributes of a contact that can be updated in place;
\* type is Required and carries no plan modifier.
ContactPlans == [name : {"n1", "n2"}, type : {"PERSON", "ORG"}]

NoContactState == [id |-> <<>>, name |-> "", type |-> ""]

HasContact(contacts, id) == \E c \in contacts : Itoa(c.id) = id

\* resolveID(rawID) for a float64 or a string: the decimal string of the ID
resolveID(rawID) == Itoa(rawID)

\* The registrar holds one contact Terraform does not manage and numbers new
\* contacts consecutively.
InitContact ==
    /\ state = NoContactState
    /\ remote = [contacts |-> {[id |-> 1, name |-> "n0", type |-> "ORG"]}, nextId |-> 5]
    /\ op = NoOp
    /\ submitted = NoContactState
    /\ nops = 0
    /\ rpcs = <<>>
    /\ diags = "none"

\* domainContactResource.Create: after client.Call only err is looked at, then
\* call["resData"].(map[string]interface{})["id"] is taken. The type assertion
\* panics on an answer without resData; an answer with resData yields an ID
\* whatever its status code. An answer the registrar did not apply the
\* command for names, if it has resData, a contact that exists already.
CtCreate ==
    /\ state.id = <<>>
    /\ nops < MaxOps
    /\ \E plan \in ContactPlans, o \in OutcomesFor(TRUE), hasResData \in BOOLEAN :
         /\ op' = [name |-> "create", prior |-> state, plan |-> plan]
         /\ rpcs' = <<Rpc("contact.create", plan, o)>>
         /\ IF o.err
            THEN /\ diags' = "error"
                 /\ UNCHANGED <<state, remote>>
            ELSE IF AnswerOk(o)
            THEN /\ diags' = "none"
                 /\ state' = [id |-> resolveID(remote.nextId), name |-> plan.name,
                              type |-> plan.type]
                 /\ remote' = [contacts |-> remote.contacts
                                            \cup {[id |-> remote.nextId, name |-> plan.name,
                                                   type |-> plan.type]},
                               nextId |-> remote.nextId + 1]
            ELSE IF ~hasResData
            THEN /\ diags' = "panic"
                 /\ UNCHANGED <<state, remote>>
            ELSE \E c \in remote.contacts :
                   /\ diags' = "none"
                   /\ state' = [id |-> resolveID(c.id), name |-> plan.name,
                                type |-> plan.type]
                   /\ UNCHANGED remote
    /\ nops' = nops + 1
    /\ UNCHANGED submitted
    /\ UNCHANGED <<ClientVars, ConfigVars, ParseVars>>

\* domainContactResource.Read: after client.Call only err is looked at. An
\* answer without resData.contact panics in the type assertion; so does one
\* with it, as "protection" is asserted to be a string in
\* expandContactFromInfoResponse and a bool in ToModel.
CtRead ==
    /\ state.id # <<>>
    /\ nops < MaxOps
    /\ op' = [name |-> "read", prior |-> state,
              plan |-> [name |-> state.name, type |-> state.type]]
    /\ IF ~AtoiOk(state.id)
       THEN /\ rpcs' = <<>>
            /\ diags' = "error"
       ELSE \E o \in OutcomesFor(HasContact(remote.contacts, state.id)) :
              /\ rpcs' = <<Rpc("contact.info", [id |-> state.id], o)>>
              /\ diags' = IF o.err THEN "error" ELSE "panic"
    /\ nops' = nops + 1
    /\ UNCHANGED <<state, remote, submitted>>
    /\ UNCHANGED <<ClientVars, ConfigVars, ParseVars>>

\* if !plan.Type.Equal(state.Type) { AddError; return }
\* if data.HasChange("type") { return diags }
TypeChanged_Ignored(plan, prior) == FALSE
TypeChanged(plan, prior) == plan.type # prior.type

\* The parameters of contact.update: the ID and the attributes that changed.
ContactUpdateParameters(plan, prior) ==
    IF plan.name # prior.name
    THEN [id |-> prior.id, name |-> plan.name]
    ELSE [id |-> prior.id]

\* What contact.update does at the registrar.
RegistrarUpdateContact(contacts, parameters) ==
    {IF Itoa(c.id) = parameters.id /\ "name" \in DOMAIN parameters
     THEN [c EXCEPT !.name = parameters.name]
     ELSE c : c \in contacts}

\* domainContactResource.Update: a changed type returns an error before the
\* call; the state is set to the plan only after the status code was checked.
CtUpdate ==
    /\ state.id # <<>>
    /\ nops < MaxOps
    /\ \E plan \in {p \in ContactPlans : p # [name |-> state.name, type |-> state.type]} :
         /\ op' = [name |-> "update", prior |-> state, plan |-> plan]
         /\ IF TypeChanged(plan, state)
            THEN /\ rpcs' = <<>>
                 /\ diags' = "error"
                 /\ UNCHANGED <<state, remote>>
            ELSE \E o \in OutcomesFor(HasContact(remote.contacts, state.id)) :
                   LET parameters == ContactUpdateParameters(plan, state)
                   IN /\ rpcs' = <<Rpc("contact.update", parameters, o)>>
                      /\ IF ~AnswerOk(o)
                         THEN /\ diags' = "error"
                              /\ UNCHANGED <<state, remote>>
                         ELSE /\ diags' = "none"
                              /\ state' = [id |-> state.id, name |-> plan.name,
                                           type |-> plan.type]
                              /\ remote' = [remote EXCEPT !.contacts =
                                              RegistrarUpdateContact(@, parameters)]
    /\ nops' = nops + 1
    /\ UNCHANGED submitted
    /\ UNCHANGED <<ClientVars, ConfigVars, ParseVars>>

\* resourceContactUpdate (SDK), src/inwx/internal/resource/resource_glue_record.go:
\* a changed type returns an error before the call. The SDK stores the
\* ResourceData of an update also when it returns an error.
resourceContactUpdate ==
    /\ state.id # <<>>
    /\ nops < MaxOps
    /\ \E plan \in {p \in ContactPlans : p # [name |-> state.name, type |-> state.type]} :
         /\ op' = [name |-> "update", prior |-> state, plan |-> plan]
         /\ state' = [id |-> state.id, name |-> plan.name, type |-> plan.type]
         /\ IF TypeChanged(plan, state)
            THEN /\ rpcs' = <<>>
                 /\ diags' = "error"
                 /\ UNCHANGED remote
            ELSE \E o \in OutcomesFor(HasContact(remote.contacts, state.id)) :
                   LET parameters == ContactUpdateParameters(plan, state)
                   IN /\ rpcs' = <<Rpc("contact.update", parameters, o)>>
                      /\ diags' = IF AnswerOk(o) THEN "none" ELSE "error"
                      /\ remote' = IF AnswerOk(o)
                                   THEN [remote EXCEPT !.contacts =
                                           RegistrarUpdateContact(@, parameters)]
                                   ELSE remote
    /\ nops' = nops + 1
    /\ UNCHANGED submitted
    /\ UNCHANGED <<ClientVars, ConfigVars, ParseVars>>

\* domainContactResource.Delete
CtDelete ==
    /\ state.id # <<>>
    /\ nops < MaxOps
    /\ op' = [name |-> "delete", prior |-> state, plan |-> [name |-> "", type |-> ""]]
    /\ IF ~AtoiOk(state.id)
       THEN /\ rpcs' = <<>>
            /\ diags' = "error"
            /\ UNCHANGED <<state, remote>>
       ELSE \E o \in OutcomesFor(HasContact(remote.contacts, state.id)) :
              /\ rpcs' = <<Rpc("contact.delete", [id |-> state.id], o)>>
              /\ IF ~AnswerOk(o)
                 THEN /\ diags' = "error"
                      /\ UNCHANGED <<state, remote>>
                 ELSE /\ diags' = "none"
                      /\ state' = NoContactState
                      /\ remote' = [remote EXCEPT !.contacts = {c \in @ : Itoa(c.id) # state.id}]
    /\ nops' = nops + 1
    /\ UNCHANGED submitted
    /\ UNCHANGED <<ClientVars, ConfigVars, ParseVars>>

NextContact ==
    \/ CtCreate
    \/ CtRead
    \/ CtUpdate
    \/ CtDelete

InitSpecContact == InitContact /\ IdleClient /\ IdleConfig /\ IdleParse

SpecContact == InitSpecContact /\ [][NextContact]_vars

----------------------------------------------------------------------------
(* Import by ID of the nameserver record, nameserver zone and glue record  *)
(* resources. An importer returns whether it failed and, if not, the ID    *)
(* and the domain (hostname) attribute of the imported state; <<>> is an   *)
(* attribute that was not set.                                             *)

ImportError == [err |-> TRUE, id |-> <<>>, domain |-> <<>>]

\* NameserverRecordResource().Importer, src/unnamed/part_013:39-52
NameserverRecordImporter(id) ==
    LET p == resourceNameserverRecordParseId(id)
    IN IF p.err THEN ImportError
       ELSE [err |-> FALSE, id |-> Concat(p.first, p.second), domain |-> p.first]

\* NameserverResource().Importer, src/unnamed/part_015:39-59: it ends with
\* resourceNameserverRead, with the outcome o of nameserver.info and the zone z.
NameserverImporter(id, o, z) ==
    LET p == resourceNameserverParseId(id)
        d == [NoState EXCEPT !.id = Concat(p.first, p.second), !.domain = p.first]
        r == resourceNameserverRead(d, o, z)
    IN IF p.err \/ r.diags = "error" THEN ImportError
       ELSE [err |-> FALSE, id |-> r.d.id, domain |-> r.d.domain]

\* GlueRecordResource().Importer, src/inwx/internal/resource/resource_glue_record.go:29-41:
\* d.Set("domain", domain) names an attribute the schema does not have
\* (the attribute is hostname); its error is dropped and nothing is set.
GlueRecordImporter(id) ==
    LET p == resourceGlueRecordParseId(id)
    IN IF p.err THEN ImportError
       ELSE [err |-> FALSE, id |-> Concat(p.first, p.second), domain |-> <<>>]

\* NameserverResource.ImportState, src/internal/provider/resource_domain_contact.go:733-742:
\* SetAttribute of domain and ro_id; the id attribute is not set.
NameserverImportState(id) ==
    LET p == resourceNameserverParseId(id)
    IN IF p.err THEN ImportError
       ELSE [err |-> FALSE, id |-> <<>>, domain |-> p.first]

\* GlueRecordResource.ImportState, src/internal/provider/resource_glue_record.go:252-261:
\* SetAttribute of hostname and ro_id; the id attribute is not set.
GlueRecordImportState(id) ==
    LET p == parseGlueRecordID(id)
    IN IF p.err THEN ImportError
       ELSE [err |-> FALSE, id |-> <<>>, domain |-> p.first]

\* terraform import with any short ID string; the registrar holds the zone
\* of ZoneDomain.
InitImport ==
    /\ compositeId \in StringsUpTo(MaxLen + 1)
    /\ idX = <<>>
    /\ idY = <<>>
    /\ parsed = NotParsed
    /\ state = [id |-> <<>>, domain |-> <<>>]
    /\ remote = RegistrarCreateZone([domain |-> ZoneDomain, type |-> "MASTER"], 12, <<"a", ".", "x">>)
    /\ op = NoOp
    /\ submitted = <<>>
    /\ nops = 0
    /\ rpcs = <<>>
    /\ diags = "none"

\* The state Terraform keeps of an import: that of the importer, nothing if it failed.
ImportDone(importer, r) ==
    /\ op' = [name |-> "import", importer |-> importer]
    /\ diags' = IF r.err THEN "error" ELSE "none"
    /\ state' = IF r.err THEN state ELSE [id |-> r.id, domain |-> r.domain]
    /\ nops' = nops + 1
    /\ UNCHANGED <<remote, submitted>>
    /\ UNCHANGED <<ClientVars, ConfigVars, ParseVars>>

ImportRecord ==
    /\ nops = 0
    /\ rpcs' = <<>>
    /\ ImportDone("NameserverRecordImporter", NameserverRecordImporter(compositeId))

ImportZone ==
    /\ nops = 0
    /\ LET p == resourceNameserverParseId(compositeId)
       IN IF p.err
          THEN /\ rpcs' = <<>>
               /\ ImportDone("NameserverImporter", ImportError)
          ELSE \E o \in OutcomesFor(p.first = remote.domain) :
                 /\ rpcs' = <<Rpc("nameserver.info", [domain |-> p.first], o)>>
                 /\ ImportDone("NameserverImporter", NameserverImporter(compositeId, o, remote))

ImportGlue ==
    /\ nops = 0
    /\ rpcs' = <<>>
    /\ ImportDone("GlueRecordImporter", GlueRecordImporter(compositeId))

ImportZoneFramework ==
    /\ nops = 0
    /\ rpcs' = <<>>
    /\ ImportDone("NameserverImportState", NameserverImportState(compositeId))

ImportGlueFramework ==
    /\ nops = 0
    /\ rpcs' = <<>>
    /\ ImportDone("GlueRecordImportState", GlueRecordImportState(compositeId))

NextImport ==
    \/ ImportRecord
    \/ ImportZone
    \/ ImportGlue
    \/ ImportZoneFramework
    \/ ImportGlueFramework

InitSpecImport == InitImport /\ IdleClient /\ IdleConfig

SpecImport == InitSpecImport /\ [][NextImport]_vars

----------------------------------------------------------------------------
(* DNSSEC key resource (SDK):                                              *)
(* src/inwx/internal/resource/resource_dnssec_key.go,                      *)
(* and the Create of the framework resource.                               *)

NoKeyState == [id |-> <<>>, domain |-> <<>>, digest |-> <<>>]

\* The keys the registrar holds when Terraform starts, and the key it makes
\* of the public key of the configuration.
InitKeys ==
    {[id |-> <<"7">>, domain |-> <<"a">>, digest |-> <<"a">>],
     [id |-> <<"8">>, domain |-> <<"a">>, digest |-> <<".">>]}
NewKey == [id |-> <<"9">>, domain |-> <<"a">>, digest |-> <<"b">>]

\* The ds value of the answer to dnssec.adddnskey: key tag, algorithm, digest
\* type and digest separated by blanks, or a value with a field missing, or
\* one with a field too many.
DsValues(digest) ==
    {Join(<<<<"1">>, <<"8">>, <<"2">>, digest>>, " "),
     Join(<<<<"1">>, <<"8">>, digest>>, " "),
     Join(<<<<"1">>, <<"8">>, <<"2">>, digest, <<"x">>>>, " ")}

\* d.Set("digest", parts[3]) / data.Digest = types.StringValue(parts[3])
DsDigest_ThirdField(parts) == parts[3]
DsDigest(parts) == parts[4]

\* Importer: strings.Split(d.Id(), "/"), len(parts) != 2 is an error
DNSSECKeyImporter_Swapped(id) ==
    LET parts == Split(id, "/")
    IN IF Len(parts) # 2 THEN [err |-> TRUE, domain |-> <<>>, digest |-> <<>>]
       ELSE [err |-> FALSE, domain |-> parts[2], digest |-> parts[1]]

DNSSECKeyImporter(id) ==
    LET parts == Split(id, "/")
    IN IF Len(parts) # 2 THEN [err |-> TRUE, domain |-> <<>>, digest |-> <<>>]
       ELSE [err |-> FALSE, domain |-> parts[1], digest |-> parts[2]]

ListKeysRpc(d, o) == Rpc("dnssec.listkeys", [domainName |-> d.domain, digest |-> d.digest], o)

\* resourceDNSSECKeyRead on ResourceData d, with the outcome o of
\* dnssec.listkeys and the keys the registrar lists for the domain and the
\* digest sent: only code 1000 is accepted; an empty list clears the ID,
\* otherwise ID, domain and digest are those of the first key listed.
resourceDNSSECKeyRead(d, o, keys) ==
    IF o.err \/ Code(o) # COMMAND_SUCCESSFUL THEN [d |-> d, diags |-> "error"]
    ELSE LET listed == {k \in keys : k.domain = d.domain /\ k.digest = d.digest}
         IN IF listed = {} THEN [d |-> [d EXCEPT !.id = <<>>], diags |-> "none"]
            ELSE LET key == CHOOSE k \in listed : TRUE
                 IN [d |-> [id |-> key.id, domain |-> key.domain, digest |-> key.digest],
                     diags |-> "none"]

\* The ID strings of an import: up to three characters of a, "." and "/".
InitDnssec ==
    /\ compositeId \in {ReplaceAll(t, <<":">>, <<"/">>) : t \in StringsUpTo(MaxLen + 1)}
    /\ idX = <<>>
    /\ idY = <<>>
    /\ parsed = NotParsed
    /\ state = NoKeyState
    /\ remote = InitKeys
    /\ op = NoOp
    /\ submitted = <<>>
    /\ nops = 0
    /\ rpcs = <<>>
    /\ diags = "none"

\* terraform import: the importer alone; d.Id() stays the import string
\* until a Read replaces it.
DkImport ==
    /\ state.id = <<>>
    /\ nops = 0
    /\ LET r == DNSSECKeyImporter(compositeId)
       IN /\ diags' = IF r.err THEN "error" ELSE "none"
          /\ state' = IF r.err THEN state
                      ELSE [id |-> compositeId, domain |-> r.domain, digest |-> r.digest]
    /\ op' = [name |-> "import", prior |-> state]
    /\ rpcs' = <<>>
    /\ nops' = nops + 1
    /\ UNCHANGED <<remote, submitted>>
    /\ UNCHANGED <<ClientVars, ConfigVars, ParseVars>>

\* resourceDNSSECKeyCreate: the diagnostics of the read it ends with are
\* dropped; a create that returns without an ID leaves nothing in the state.
DkCreate ==
    /\ state.id = <<>>
    /\ nops < MaxOps
    /\ \E o \in OutcomesFor(NewKey \notin remote) :
         LET call == Rpc("dnssec.adddnskey", [domainName |-> NewKey.domain], o)
         IN IF ~AnswerOk(o)
            THEN /\ op' = [name |-> "create", prior |-> state, ds |-> <<>>]
                 /\ rpcs' = <<call>>
                 /\ diags' = "error"
                 /\ UNCHANGED <<state, remote>>
            ELSE \E ds \in DsValues(NewKey.digest), o2 \in HandlerOutcomes :
                   LET parts == Split(ds, " ")
                       keys == remote \cup {NewKey}
                       d == [id |-> <<>>, domain |-> NewKey.domain,
                             digest |-> IF Len(parts) = 4 THEN DsDigest(parts) ELSE <<>>]
                       r == resourceDNSSECKeyRead(d, o2, keys)
                   IN /\ op' = [name |-> "create", prior |-> state, ds |-> ds]
                      /\ remote' = keys
                      /\ IF Len(parts) # 4
                         THEN /\ rpcs' = <<call>>
                              /\ diags' = "error"
                              /\ UNCHANGED state
                         ELSE /\ rpcs' = <<call, ListKeysRpc(d, o2)>>
                              /\ diags' = "none"
                              /\ state' = IF r.d.id = <<>> THEN NoKeyState ELSE r.d
    /\ nops' = nops + 1
    /\ UNCHANGED submitted
    /\ UNCHANGED <<ClientVars, ConfigVars, ParseVars>>

\* DNSSECKeyResource.Create, src/internal/provider/resource_dnssec_key.go:
\* req.Plan.Get into DNSSECKeyResourceModel, whose fields carry tfschema tags,
\* can add an error and end the handler; after it the same steps up to the
\* digest; then dnssec.listkeys with only code 1000 accepted, res[0] of the
\* keys listed (an index panic on an empty list), and the state set from
\* that key.
DNSSECKeyCreate ==
    /\ state.id = <<>>
    /\ nops < MaxOps
    /\ \E planOk \in BOOLEAN, o \in OutcomesFor(NewKey \notin remote) :
         LET call == Rpc("dnssec.adddnskey", [domainName |-> NewKey.domain], o)
         IN IF ~planOk
            THEN /\ op' = [name |-> "create", prior |-> state, ds |-> <<>>]
                 /\ rpcs' = <<>>
                 /\ diags' = "error"
                 /\ UNCHANGED <<state, remote>>
            ELSE IF ~AnswerOk(o)
            THEN /\ op' = [name |-> "create", prior |-> state, ds |-> <<>>]
                 /\ rpcs' = <<call>>
                 /\ diags' = "error"
                 /\ UNCHANGED <<state, remote>>
            ELSE \E ds \in DsValues(NewKey.digest), o2 \in HandlerOutcomes :
                   LET parts == Split(ds, " ")
                       keys == remote \cup {NewKey}
                       d == [id |-> <<>>, domain |-> NewKey.domain,
                             digest |-> IF Len(parts) = 4 THEN DsDigest(parts) ELSE <<>>]
                       listed == {k \in keys : k.domain = d.domain /\ k.digest = d.digest}
                   IN /\ op' = [name |-> "create", prior |-> state, ds |-> ds]
                      /\ remote' = keys
                      /\ IF Len(parts) # 4
                         THEN /\ rpcs' = <<call>>
                              /\ diags' = "error"
                              /\ UNCHANGED state
                         ELSE /\ rpcs' = <<call, ListKeysRpc(d, o2)>>
                              /\ IF o2.err \/ Code(o2) # COMMAND_SUCCESSFUL
                                 THEN /\ diags' = "error"
                                      /\ UNCHANGED state
                                 ELSE IF listed = {}
                                 THEN /\ diags' = "panic"
                                      /\ UNCHANGED state
                                 ELSE /\ diags' = "none"
                                      /\ state' = CHOOSE k \in listed : TRUE
    /\ nops' = nops + 1
    /\ UNCHANGED submitted
    /\ UNCHANGED <<ClientVars, ConfigVars, ParseVars>>

\* resourceDNSSECKeyRead as the refresh of a tracked or imported key
DkRead ==
    /\ state.id # <<>>
    /\ nops < MaxOps
    /\ \E o \in OutcomesFor(TRUE) :
         LET r == resourceDNSSECKeyRead(state, o, remote)
         IN /\ op' = [name |-> "read", prior |-> state]
            /\ rpcs' = <<ListKeysRpc(state, o)>>
            /\ diags' = r.diags
            /\ state' = IF r.d.id = <<>> THEN NoKeyState ELSE r.d
    /\ nops' = nops + 1
    /\ UNCHANGED <<remote, submitted>>
    /\ UNCHANGED <<ClientVars, ConfigVars, ParseVars>>

\* resourceDNSSECKeyDelete
DkDelete ==
    /\ state.id # <<>>
    /\ nops < MaxOps
    /\ op' = [name |-> "delete", prior |-> state]
    /\ \E o \in OutcomesFor(\E k \in remote : k.id = state.id) :
         /\ rpcs' = <<Rpc("dnssec.deletednskey", [key |-> state.id], o)>>
         /\ IF ~AnswerOk(o)
            THEN /\ diags' = "error"
                 /\ UNCHANGED <<state, remote>>
            ELSE /\ diags' = "none"
                 /\ state' = NoKeyState
                 /\ remote' = {k \in remote : k.id # state.id}
    /\ nops' = nops + 1
    /\ UNCHANGED submitted
    /\ UNCHANGED <<ClientVars, ConfigVars, ParseVars>>

NextDnssec ==
    \/ DkImport
    \/ DkCreate
    \/ DNSSECKeyCreate
    \/ DkRead
    \/ DkDelete

InitSpecDnssec == InitDnssec /\ IdleClient /\ IdleConfig

SpecDnssec == InitSpecDnssec /\ [][NextDnssec]_vars

----------------------------------------------------------------------------
(* Domain resource (SDK): DomainResource and resourceDomain* in            *)
(* src/inwx/internal/resource/resource_glue_record.go                      *)

\* Values of the attributes in a configuration: name, and period for the
\* attributes that domain.update can change. name is Required and not ForceNew.
DomainPlans == [name : {"d1", "d2"}, period : {"1Y", "2Y"}]

NoDomainState == [id |-> "", name |-> "", period |-> ""]

HasDomain(domains, name) == \E r \in domains : r.name = name

\* The registrar holds domain d2 of the account before Terraform runs.
InitDomain ==
    /\ state = NoDomainState
    /\ remote = {[name |-> "d2", period |-> "1Y"]}
    /\ op = NoOp
    /\ submitted = NoDomainState
    /\ nops = 0
    /\ rpcs = <<>>
    /\ diags = "none"

\* Importer: data.Set("name", data.Id()), then ImportStatePassthroughContext
DmImport ==
    /\ state.id = ""
    /\ nops = 0
    /\ \E id \in {pl.name : pl \in DomainPlans} :
         /\ op' = [name |-> "import", prior |-> state, plan |-> [name |-> id, period |-> ""]]
         /\ state' = [id |-> id, name |-> id, period |-> ""]
    /\ rpcs' = <<>>
    /\ diags' = "none"
    /\ nops' = nops + 1
    /\ UNCHANGED <<remote, submitted>>
    /\ UNCHANGED <<ClientVars, ConfigVars, ParseVars>>

\* resourceDomainCreate: d.SetId(d.Get("name")) after the status code check
DmCreate ==
    /\ state.id = ""
    /\ nops < MaxOps
    /\ \E plan \in DomainPlans :
       \E o \in OutcomesFor(~HasDomain(remote, plan.name)) :
         /\ op' = [name |-> "create", prior |-> state, plan |-> plan]
         /\ rpcs' = <<Rpc("domain.create", [domain |-> plan.name, period |-> plan.period], o)>>
         /\ IF ~AnswerOk(o)
            THEN /\ diags' = "error"
                 /\ UNCHANGED <<state, remote>>
            ELSE /\ diags' = "none"
                 /\ state' = [id |-> plan.name, name |-> plan.name, period |-> plan.period]
                 /\ remote' = remote \cup {[name |-> plan.name, period |-> plan.period]}
    /\ nops' = nops + 1
    /\ UNCHANGED submitted
    /\ UNCHANGED <<ClientVars, ConfigVars, ParseVars>>

\* resourceDomainRead: domain.info for d.Id(), only code 1000 is accepted;
\* name and the other attributes are set from resData.
DmRead ==
    /\ state.id # ""
    /\ nops < MaxOps
    /\ \E o \in OutcomesFor(HasDomain(remote, state.id)) :
         /\ op' = [name |-> "read", prior |-> state, plan |-> [name |-> state.name, period |-> state.period]]
         /\ rpcs' = <<Rpc("domain.info", [domain |-> state.id], o)>>
         /\ IF o.err \/ Code(o) # COMMAND_SUCCESSFUL
            THEN /\ diags' = "error"
                 /\ UNCHANGED state
            ELSE /\ diags' = "none"
                 /\ LET resData == CHOOSE r \in remote : r.name = state.id
                    IN state' = [id |-> state.id, name |-> resData.name, period |-> resData.period]
    /\ nops' = nops + 1
    /\ UNCHANGED <<remote, submitted>>
    /\ UNCHANGED <<ClientVars, ConfigVars, ParseVars>>

\* resourceDomainUpdate: if d.HasChange("name") it returns an error before
\* any RPC; else domain.update for d.Get("name") with the changed attributes.
\* The SDK stores the ResourceData of an update also when it returns an error.
DmUpdate ==
    /\ state.id # ""
    /\ nops < MaxOps
    /\ \E plan \in {pl \in DomainPlans : pl # [name |-> state.name, period |-> state.period]} :
         LET d == [id |-> state.id, name |-> plan.name, period |-> plan.period]
         IN /\ op' = [name |-> "update", prior |-> state, plan |-> plan]
            /\ state' = d
            /\ IF d.name # state.name
               THEN /\ rpcs' = <<>>
                    /\ diags' = "error"
                    /\ UNCHANGED remote
               ELSE \E o \in OutcomesFor(HasDomain(remote, d.name)) :
                      /\ rpcs' = <<Rpc("domain.update", [domain |-> d.name, period |-> d.period], o)>>
                      /\ diags' = IF AnswerOk(o) THEN "none" ELSE "error"
                      /\ remote' = IF AnswerOk(o)
                                   THEN {IF r.name = d.name THEN [r EXCEPT !.period = d.period] ELSE r
                                         : r \in remote}
                                   ELSE remote
    /\ nops' = nops + 1
    /\ UNCHANGED submitted
    /\ UNCHANGED <<ClientVars, ConfigVars, ParseVars>>

\* resourceDomainDelete: domain.delete for d.Get("name")
DmDelete ==
    /\ state.id # ""
    /\ nops < MaxOps
    /\ \E o \in OutcomesFor(HasDomain(remote, state.name)) :
         /\ op' = [name |-> "delete", prior |-> state, plan |-> [name |-> "", period |-> ""]]
         /\ rpcs' = <<Rpc("domain.delete", [domain |-> state.name], o)>>
         /\ IF ~AnswerOk(o)
            THEN /\ diags' = "error"
                 /\ UNCHANGED <<state, remote>>
            ELSE /\ diags' = "none"
                 /\ state' = NoDomainState
                 /\ remote' = {r \in remote : r.name # state.name}
    /\ nops' = nops + 1
    /\ UNCHANGED submitted
    /\ UNCHANGED <<ClientVars, ConfigVars, ParseVars>>

NextDomain ==
    \/ DmImport
    \/ DmCreate
    \/ DmRead
    \/ DmUpdate
    \/ DmDelete

InitSpecDomain == InitDomain /\ IdleClient /\ IdleConfig /\ IdleParse

SpecDomain == InitSpecDomain /\ [][NextDomain]_vars

----------------------------------------------------------------------------
(* Updates of a tracked contact (by either provider) and of a tracked      *)
(* domain (SDK): the handlers above, started from a resource that exists.  *)

\* The state of a contact or of a domain that earlier applies created, and
\* the registrar holding it next to an object Terraform does not manage.
InitImmutable ==
    /\ \/ \E plan \in ContactPlans :
            /\ state = [id |-> resolveID(5), name |-> plan.name,
                        type |-> plan.type]
            /\ remote = [contacts |-> {[id |-> 1, name |-> "n0", type |-> "ORG"],
                                       [id |-> 5, name |-> plan.name,
                                        type |-> plan.type]},
                         nextId |-> 6]
       \/ \E plan \in DomainPlans :
            /\ state = [id |-> plan.name, name |-> plan.name, period |-> plan.period]
            /\ remote = {[name |-> "d1", period |-> IF plan.name = "d1" THEN plan.period ELSE "1Y"],
                         [name |-> "d2", period |-> IF plan.name = "d2" THEN plan.period ELSE "1Y"]}
    /\ op = NoOp
    /\ submitted = <<>>
    /\ nops = 0
    /\ rpcs = <<>>
    /\ diags = "none"

IsContactState == "type" \in DOMAIN state
IsDomainState == "period" \in DOMAIN state

UpdateContactFramework == IsContactState /\ CtUpdate
UpdateContactSdk == IsContactState /\ resourceContactUpdate
UpdateDomainSdk == IsDomainState /\ DmUpdate

NextImmutable ==
    \/ UpdateContactFramework
    \/ UpdateContactSdk
    \/ UpdateDomainSdk

InitSpecImmutable == InitImmutable /\ IdleClient /\ IdleConfig /\ IdleParse

SpecImmutable == InitSpecImmutable /\ [][NextImmutable]_vars

----------------------------------------------------------------------------
(* Glue record resource, Update and Delete:                                *)
(*   SDK        src/inwx/internal/resource/resource_glue_record.go         *)
(*   framework  src/internal/provider/resource_glue_record.go              *)

\* hostname as a string (empty: not set); testing null, false or true.
GlueAttrs == [hostname : {<<>>, <<"a">>}, testing : {Null, "false", "true"}]

NoGlueState == [id |-> <<>>, hostname |-> <<>>, testing |-> Null]

\* Values of RPC parameters, with their Go type.
StringParam(s) == [type |-> "string", v |-> s]
BoolParam(b) == [type |-> "bool", v |-> IF b = "true" THEN <<"t", "r", "u", "e">>
                                        ELSE <<"f", "a", "l", "s", "e">>]

\* d.GetOk(k): the attribute is set to a value that is not the zero value
\* ("" for a string, false for a bool)
GetOkString(v) == v # <<>>
GetOkBool(v) == v = "true"

\* client.CallNoResponseBody returns an error or nil; no status code is decoded.
NoBodyOutcomes == {TransportError, [err |-> FALSE, code |-> 0]}

\* A glue record is tracked under some ID string.
InitGlue ==
    /\ \E id \in StringsUpTo(MaxLen + 1) \ {<<>>}, a \in GlueAttrs :
         state = [id |-> id, hostname |-> a.hostname, testing |-> a.testing]
    /\ remote = <<>>
    /\ op = NoOp
    /\ submitted = <<>>
    /\ nops = 0
    /\ rpcs = <<>>
    /\ diags = "none"

\* resourceGlueRecordUpdate: after the ID is parsed the parameters are built
\* with d.Get("ip").(string); ip is a TypeList, d.Get returns []interface{}
\* and the type assertion panics before host.update is called. The SDK stores
\* the ResourceData of an update that returned an error.
resourceGlueRecordUpdate ==
    /\ state.id # <<>>
    /\ nops < MaxOps
    /\ \E plan \in GlueAttrs :
         LET p == resourceGlueRecordParseId(state.id)
         IN /\ op' = [name |-> "update", prior |-> state, plan |-> plan]
            /\ rpcs' = <<>>
            /\ IF p.err
               THEN /\ diags' = "error"
                    /\ state' = [id |-> state.id, hostname |-> plan.hostname,
                                 testing |-> plan.testing]
               ELSE /\ diags' = "panic"
                    /\ UNCHANGED state
    /\ nops' = nops + 1
    /\ UNCHANGED <<remote, submitted>>
    /\ UNCHANGED <<ClientVars, ConfigVars, ParseVars>>

\* parameters of resourceGlueRecordDelete: roId is the parsed ID; hostname is
\* added when set; if testing, ok := d.GetOk("testing"); ok { parameters["roId"] = testing }
GlueDeleteParameters(d, roId) ==
    (IF GetOkBool(d.testing) THEN [roId |-> BoolParam(d.testing)]
     ELSE [roId |-> StringParam(roId)])
    @@ (IF GetOkString(d.hostname) THEN [hostname |-> StringParam(d.hostname)] ELSE NoParams)

\* resourceGlueRecordDelete: the ID is parsed with resourceNameserverRecordParseId.
resourceGlueRecordDelete ==
    /\ state.id # <<>>
    /\ nops < MaxOps
    /\ op' = [name |-> "delete", prior |-> state, plan |-> NoGlueState]
    /\ LET p == resourceNameserverRecordParseId(state.id)
       IN IF p.err
          THEN /\ rpcs' = <<>>
               /\ diags' = "error"
               /\ UNCHANGED state
          ELSE \E o \in NoBodyOutcomes :
                 /\ rpcs' = <<Rpc("host.delete", GlueDeleteParameters(state, p.second), o)>>
                 /\ diags' = IF o.err THEN "error" ELSE "none"
                 /\ state' = IF o.err THEN state ELSE NoGlueState
    /\ nops' = nops + 1
    /\ UNCHANGED <<remote, submitted>>
    /\ UNCHANGED <<ClientVars, ConfigVars, ParseVars>>

\* GlueRecordResource.Update: roId from parseGlueRecordID(plan.ID), the plan
\* carrying the ID of the state; hostname and testing are added only when
\* unknown in the plan, which a planned update never has them be.
GlueRecordUpdate ==
    /\ state.id # <<>>
    /\ nops < MaxOps
    /\ \E plan \in GlueAttrs :
         LET p == parseGlueRecordID(state.id)
         IN /\ op' = [name |-> "update", prior |-> state, plan |-> plan]
            /\ IF p.err
               THEN /\ rpcs' = <<>>
                    /\ diags' = "error"
                    /\ UNCHANGED state
               ELSE \E o \in NoBodyOutcomes :
                      /\ rpcs' = <<Rpc("host.update", [roId |-> StringParam(p.second)], o)>>
                      /\ diags' = IF o.err THEN "error" ELSE "none"
                      /\ state' = IF o.err THEN state
                                  ELSE [id |-> state.id, hostname |-> plan.hostname,
                                        testing |-> plan.testing]
    /\ nops' = nops + 1
    /\ UNCHANGED <<remote, submitted>>
    /\ UNCHANGED <<ClientVars, ConfigVars, ParseVars>>

\* GlueRecordResource.Delete: roId from parseGlueRecordID(state.ID)
GlueRecordDelete ==
    /\ state.id # <<>>
    /\ nops < MaxOps
    /\ op' = [name |-> "delete", prior |-> state, plan |-> NoGlueState]
    /\ LET p == parseGlueRecordID(state.id)
       IN IF p.err
          THEN /\ rpcs' = <<>>
               /\ diags' = "error"
               /\ UNCHANGED state
          ELSE \E o \in NoBodyOutcomes :
                 /\ rpcs' = <<Rpc("host.delete", [roId |-> StringParam(p.second)], o)>>
                 /\ diags' = IF o.err THEN "error" ELSE "none"
                 /\ state' = IF o.err THEN state ELSE NoGlueState
    /\ nops' = nops + 1
    /\ UNCHANGED <<remote, submitted>>
    /\ UNCHANGED <<ClientVars, ConfigVars, ParseVars>>

NextGlue ==
    \/ resourceGlueRecordUpdate
    \/ resourceGlueRecordDelete
    \/ GlueRecordUpdate
    \/ GlueRecordDelete

InitSpecGlue == InitGlue /\ IdleClient /\ IdleConfig /\ IdleParse

SpecGlue == InitSpecGlue /\ [][NextGlue]_vars

----------------------------------------------------------------------------
(* Update handlers of the framework resources that cannot be updated:      *)
(*   NameserverResource.Update        src/internal/provider/resource_domain_contact.go *)
(*   DNSSECKeyResource.Update         src/internal/provider/resource_dnssec_key.go     *)
(*   NameserverRecordResource.Update  src/unnamed/part_019                  *)
(*   automatedDNSSECResource.Update   src/unnamed/part_018                  *)

NoUpdateResources == {"inwx_nameserver", "inwx_dnssec_key", "inwx_nameserver_record",
                      "inwx_automated_dnssec"}

\* value stands for the attributes of the resource.
NoUpdateValues == {"v1", "v2", "v3"}

\* The state of a resource of one of the four types, as an earlier apply left
\* it, and the object the registrar holds for it. When Update starts,
\* resp.State holds the prior state.
InitNoUpdate ==
    /\ \E res \in NoUpdateResources, v \in NoUpdateValues :
         /\ state = [res |-> res, id |-> "1", value |-> v]
         /\ remote = [id |-> "1", value |-> v]
    /\ op = NoOp
    /\ submitted = <<>>
    /\ nops = 0
    /\ rpcs = <<>>
    /\ diags = "none"

\* The client calls of these handlers: they contain none.
NoUpdateCalls_SendsPlan(plan) == <<Rpc("nameserver.update", plan, TransportError)>>
NoUpdateCalls(plan) == <<>>

\* AddWarning; req.State.Get(ctx, &state), returning if it added an error;
\* resp.State.Set(ctx, state)
ReadStateBack ==
    \E getOk \in BOOLEAN :
        /\ diags' = IF getOk THEN "warning" ELSE "warning, error"
        /\ state' = state

NameserverUpdate ==
    /\ state.res = "inwx_nameserver"
    /\ nops < MaxOps
    /\ \E v \in NoUpdateValues \ {state.value} :
         LET plan == [state EXCEPT !.value = v]
         IN /\ op' = [name |-> "update", prior |-> state, plan |-> plan]
            /\ rpcs' = NoUpdateCalls(plan)
    /\ ReadStateBack
    /\ nops' = nops + 1
    /\ UNCHANGED <<remote, submitted>>
    /\ UNCHANGED <<ClientVars, ConfigVars, ParseVars>>

\* The state is read into a NameserverResourceModel.
DNSSECKeyUpdate ==
    /\ state.res = "inwx_dnssec_key"
    /\ nops < MaxOps
    /\ \E v \in NoUpdateValues \ {state.value} :
         LET plan == [state EXCEPT !.value = v]
         IN /\ op' = [name |-> "update", prior |-> state, plan |-> plan]
            /\ rpcs' = NoUpdateCalls(plan)
    /\ ReadStateBack
    /\ nops' = nops + 1
    /\ UNCHANGED <<remote, submitted>>
    /\ UNCHANGED <<ClientVars, ConfigVars, ParseVars>>

\* resp.Diagnostics.AddError("Unsupported Operation", ...)
NameserverRecordUpdate ==
    /\ state.res = "inwx_nameserver_record"
    /\ nops < MaxOps
    /\ \E v \in NoUpdateValues \ {state.value} :
         LET plan == [state EXCEPT !.value = v]
         IN /\ op' = [name |-> "update", prior |-> state, plan |-> plan]
            /\ rpcs' = NoUpdateCalls(plan)
    /\ diags' = "error"
    /\ nops' = nops + 1
    /\ UNCHANGED <<state, remote, submitted>>
    /\ UNCHANGED <<ClientVars, ConfigVars, ParseVars>>

\* The body is empty.
automatedDNSSECUpdate ==
    /\ state.res = "inwx_automated_dnssec"
    /\ nops < MaxOps
    /\ \E v \in NoUpdateValues \ {state.value} :
         LET plan == [state EXCEPT !.value = v]
         IN /\ op' = [name |-> "update", prior |-> state, plan |-> plan]
            /\ rpcs' = NoUpdateCalls(plan)
    /\ diags' = "none"
    /\ nops' = nops + 1
    /\ UNCHANGED <<state, remote, submitted>>
    /\ UNCHANGED <<ClientVars, ConfigVars, ParseVars>>

NextNoUpdate ==
    \/ NameserverUpdate
    \/ DNSSECKeyUpdate
    \/ NameserverRecordUpdate
    \/ automatedDNSSECUpdate

InitSpecNoUpdate == InitNoUpdate /\ IdleClient /\ IdleConfig /\ IdleParse

SpecNoUpdate == InitSpecNoUpdate /\ [][NextNoUpdate]_vars

----------------------------------------------------------------------------
(* resourceNameserverRead of a tracked zone whose SOA record carries any   *)
(* rname: src/unnamed/part_015                                             *)

\* The rname strings of the SOA record: up to MaxLen + 4 characters of a,
\* "." and the backslash.
RnameStrings == {ReplaceAll(t, <<":">>, <<"\\">>) : t \in StringsUpTo(MaxLen + 4)}

\* A zone of ZoneDomain that an earlier apply created and tracks; the
\* registrar's SOA record names any rname.
InitRname ==
    /\ \E rname \in RnameStrings :
         LET plan == [domain |-> ZoneDomain, type |-> "MASTER", nameservers |-> <<"n1", "n2">>,
                      master_ip |-> "", web |-> "", soa_mail |-> <<>>]
             zone == RegistrarCreateZone(buildNameserverParameters(WithId(plan, <<>>)), 12, rname)
         IN /\ state = WithId(plan, Concat(plan.domain, Itoa(12)))
            /\ remote = zone
    /\ op = NoOp
    /\ submitted = NoState
    /\ nops = 0
    /\ rpcs = <<>>
    /\ diags = "none"

NextRname ==
    \/ NsRead

InitSpecRname == InitRname /\ IdleClient /\ IdleConfig /\ IdleParse

SpecRname == InitSpecRname /\ [][NextRname]_vars

----------------------------------------------------------------------------
(* C1: for one client, at most one RPC is in flight at any time, and the   *)
(* goroutine whose request/response exchange is in progress -- from the    *)
(* cookie save before the request to the return of _Call -- holds the      *)
(* client's mutex, whichever wrapper (Call, CallNoParams,                  *)
(* CallNoResponseBody, Logout) it entered through.                         *)
InCall(p) == cpc[p] \in {"marshal", "save1", "post", "wait", "decode", "save2"}

----------------------------------------------------------------------------
(* C2: provider configuration sends account.login exactly once and before  *)
(* any other RPC, and hands the client out only if that login answered     *)
(* with code 1000; no resource handler sends an RPC through a client whose *)
(* login failed (transport error or a code other than 1000).               *)
C2_LoginFirstAndOnce ==
    /\ CountMethod(rpcs, "account.login") <= 1
    /\ Len(rpcs) > 0 => rpcs[1].method = "account.login"
    /\ (client \/ cfgpc \in {"info", "unlock", "done"}) => CountMethod(rpcs, "account.login") = 1
    /\ (client \/ "resource" \in Methods(rpcs)) =>
          /\ ~rpcs[1].outcome.err
          /\ rpcs[1].outcome.code = COMMAND_SUCCESSFUL

\* Witness: the login answered 1000, the client was handed out and a resource
\* handler has sent an RPC through it.
C2_Witness ==
    /\ client
    /\ Len(rpcs) >= 3
    /\ rpcs[Len(rpcs)].method = "resource"

(* C7: account.unlock is invoked only if a TAN is configured and non-empty *)
(* and the registrar answered account.info with code 2200.                 *)
C7_UnlockOnlyWithTanAnd2200 ==
    \A i \in 1..Len(rpcs) :
        rpcs[i].method = "account.unlock" =>
            /\ EffectiveTan(config) # ""
            /\ rpcs[i].params.tan # ""
            /\ i > 1
            /\ rpcs[i-1].method = "account.info"
            /\ ~rpcs[i-1].outcome.err
            /\ rpcs[i-1].outcome.code = 2200

\* Witness: account.info answered 2200 with a TAN configured, and
\* account.unlock was sent with that TAN.
C7_Witness ==
    /\ Len(rpcs) >= 3
    /\ rpcs[3].method = "account.unlock"
    /\ rpcs[3].params.tan = "tan"
    /\ rpcs[2].outcome.code = 2200

----------------------------------------------------------------------------
(* C9 as stated: for all non-empty components X and Y concatenated into    *)
(* X + ":" + Y, every ID parse function returns exactly (X, Y), no error.  *)
C9_RoundTripAnyComponents ==
    (parsed.fn # "none" /\ idX # <<>> /\ idY # <<>>) =>
        /\ ~parsed.err
        /\ parsed.first = idX
        /\ parsed.second = idY

HasColon(s) == \E i \in 1..Len(s) : s[i] = ":"

(* C9 amended: for all non-empty components X and Y that hold no colon,    *)
(* every ID parse function returns exactly (X, Y) and no error; if a       *)
(* component holds a colon, every one of them returns an error.            *)
C9_RoundTripColonFree ==
    (parsed.fn # "none" /\ idX # <<>> /\ idY # <<>>) =>
        IF ~HasColon(idX) /\ ~HasColon(idY)
        THEN /\ ~parsed.err
             /\ parsed.first = idX
             /\ parsed.second = idY
        ELSE parsed.err

\* Witness: a two-character domain and an identifier were concatenated and
\* parsed back by the glue record parser.
C9_Witness ==
    /\ parsed.fn = "parseGlueRecordID"
    /\ idX = <<"a", ".">>
    /\ idY = <<"1", "0">>
    /\ parsed.first = idX
    /\ parsed.second = idY

----------------------------------------------------------------------------
(* C3 (nameserver zone): after a successful Create, and after a Read that  *)
(* follows it with the registrar's zone unchanged, every settable          *)
(* attribute that was submitted holds the submitted value in the state.    *)
C3_CreateReadRoundTrip ==
    (/\ op.name \in {"create", "read"}
     /\ submitted # NoState
     /\ state.id # <<>>
     /\ diags = "none"
     /\ AnswerOk(rpcs[Len(rpcs)].outcome)) =>
        /\ state.domain = submitted.domain
        /\ state.type = submitted.type
        /\ state.nameservers = submitted.nameservers
        /\ submitted.master_ip # "" => state.master_ip = submitted.master_ip
        /\ submitted.web # "" => state.web = submitted.web
        /\ submitted.soa_mail # <<>> => state.soa_mail = submitted.soa_mail

(* C4 (nameserver zone): whenever the registrar answers an RPC of a handler *)
(* with a status code other than 1000 or 1001, the handler reports an      *)
(* error diagnostic.                                                       *)
C4_ErrorCodeReported ==
    \A i \in 1..Len(rpcs) :
        (~rpcs[i].outcome.err /\ ~AnswerOk(rpcs[i].outcome)) => diags = "error"

(* C10 (nameserver zone): an update sends, besides the identifier (domain), *)
(* exactly the fields whose planned value differs from the state value.    *)
ChangedParams(plan, prior) ==
    (IF plan.type # prior.type THEN {"type"} ELSE {})
    \cup (IF plan.nameservers # prior.nameservers THEN {"ns"} ELSE {})
    \cup (IF plan.master_ip # prior.master_ip THEN {"masterIp"} ELSE {})
    \cup (IF plan.web # prior.web THEN {"web"} ELSE {})

C10_UpdateSendsExactlyChanged ==
    op.name = "update" =>
        DOMAIN rpcs[1].params \ {"domain"} = ChangedParams(op.plan, op.prior)

(* C5 (provider configuration): every transport or serialization failure   *)
(* of an RPC sent by the configuration is surfaced as an error diagnostic; *)
(* none is followed by a reported success.                                 *)
C5_TransportErrorSurfaced ==
    \A i \in 1..Len(rpcs) :
        (rpcs[i].method \in {"account.login", "account.info", "account.unlock"}
         /\ rpcs[i].outcome.err) => diags = "error"

(* C6 (nameserver record): a create, update or delete handler whose RPC    *)
(* the registrar answered with code 1000 or with code 1001 reports no      *)
(* error diagnostic.                                                       *)
C6_PendingIsSuccess ==
    (/\ op.name \in {"create", "update", "delete"}
     /\ Len(rpcs) > 0
     /\ AnswerOk(rpcs[1].outcome)) => diags = "none"

(* C8 (nameserver record): whenever a record is tracked and its remote     *)
(* record exists, a Read that got the record list matches the state's      *)
(* composite ID against exactly one entry of the list.                     *)
TrackedRecordExists ==
    LET parsedId == resourceNameserverRecordParseId(state.id)
    IN ~parsedId.err /\ HasRecord(remote.records, parsedId.second)

C8_ReadMatchesExactlyOne ==
    (/\ op.name = "read"
     /\ diags = "none"
     /\ state.id # <<>>
     /\ TrackedRecordExists) => op.matches = 1

----------------------------------------------------------------------------
(* C11 (domain contact): a create handler writes the identifier to the     *)
(* state only after the create RPC was answered with a success code; if    *)
(* the RPC fails with a transport error or a non-success code, the handler *)
(* leaves the identifier and every other field of the state as they were.  *)
C11_IdOnlyAfterCheckedSuccess ==
    op.name = "create" =>
        /\ state.id # <<>> => AnswerOk(rpcs[1].outcome)
        /\ ~AnswerOk(rpcs[1].outcome) => state = op.prior

(* C12 (nameserver record): when the record the state tracks is no longer  *)
(* held by the registrar, a Read that reports success has removed the      *)
(* resource from the state (its ID is cleared); it never leaves the stale  *)
(* ID of a record the registrar no longer lists.                           *)
C12_ReadDropsVanishedRecord ==
    (/\ op.name = "read"
     /\ diags = "none"
     /\ ~HasRecord(remote.records, resourceNameserverRecordParseId(op.prior.id).second)) =>
        state.id = <<>>

(* C13 (domain contact): a create handler that succeeds issues, after      *)
(* writing the identifier and before returning, a read RPC (contact.info)  *)
(* for the same resource as its next RPC.                                  *)
C13_CreateReadsBack ==
    (/\ op.name = "create"
     /\ state.id # <<>>
     /\ AnswerOk(rpcs[1].outcome)) =>
        /\ Len(rpcs) >= 2
        /\ rpcs[2].method = "contact.info"
        /\ rpcs[2].params.id = state.id

----------------------------------------------------------------------------
UsesJar(p) == cpc[p] \in {"save1", "wait", "save2"}

C15_JarOnlyUnderMutex ==
    /\ \A p \in Procs : UsesJar(p) => mu = p
    /\ Cardinality({p \in Procs : UsesJar(p)}) <= 1

\* Witness: one goroutine is in the second jar.Save while another one, which
\* has entered _Call, waits for the mutex.
C15_Witness ==
    \E p, q \in Procs :
        /\ p # q
        /\ cpc[p] = "save2"
        /\ mu = p
        /\ cpc[q] = "lock"

----------------------------------------------------------------------------
(* C16: provider configuration resolves api_url, username, password and    *)
(* tan to the configuration attribute when it is set, otherwise to the     *)
(* environment variable when that holds a value, otherwise (api_url only)  *)
(* to https://api.domrobot.com/jsonrpc/; a set configuration value always  *)
(* overrides the environment variable.                                     *)
C16_ConfigThenEnvThenDefault ==
    cfgpc = "resolved" =>
        resolved = IF config.cfg # Null THEN config.cfg
                   ELSE IF config.env # Unset /\ config.env # "" THEN config.env
                   ELSE IF config.attr = "api_url" THEN DefaultApiUrl
                   ELSE ""

----------------------------------------------------------------------------
(* C17: importing a nameserver record, nameserver zone or glue record with *)
(* an ID string "domain:id" sets the domain (hostname) attribute to the    *)
(* first component and leaves the resource ID equal to the import string;  *)
(* an import string that does not consist of exactly two non-empty         *)
(* colon-separated parts is rejected with an error and nothing is written  *)
(* to the state.                                                           *)
C17_ImportSetsDomainKeepsId ==
    op.name = "import" =>
        IF PartsOk(Split(compositeId, ":"))
        THEN /\ diags = "none"
             /\ state.domain = Split(compositeId, ":")[1]
             /\ state.id = compositeId
        ELSE /\ diags = "error"
             /\ state = [id |-> <<>>, domain |-> <<>>]

----------------------------------------------------------------------------
(* C18 (DNSSEC key, SDK): importing with an ID string "domain/digest" sets *)
(* the domain and digest attributes to the two parts, and an import string *)
(* that does not split into exactly two parts on "/" is rejected with an   *)
(* error; the following Read asks dnssec.listkeys for that domain and      *)
(* digest and sets the resource ID to the id of the key the registrar      *)
(* holds for them.                                                         *)
C18_ImportByDomainAndDigest ==
    /\ op.name = "import" =>
         LET parts == Split(compositeId, "/")
         IN IF Len(parts) = 2
            THEN /\ diags = "none"
                 /\ state.domain = parts[1]
                 /\ state.digest = parts[2]
            ELSE /\ diags = "error"
                 /\ state = NoKeyState
    /\ (op.name = "read" /\ diags = "none") =>
         /\ rpcs[1].params.domainName = op.prior.domain
         /\ rpcs[1].params.digest = op.prior.digest
         /\ \A k \in remote :
              (k.domain = op.prior.domain /\ k.digest = op.prior.digest) => state.id = k.id

\* Witness: the import of "a/a" was followed by a Read that replaced the
\* import string with the id of the key the registrar holds for a and a.
C18_Witness ==
    /\ op.name = "read"
    /\ compositeId = <<"a", "/", "a">>
    /\ op.prior = [id |-> compositeId, domain |-> <<"a">>, digest |-> <<"a">>]
    /\ state.id = <<"7">>

----------------------------------------------------------------------------
(* C19 (domain, SDK): the ID is the domain name. In every state reached by *)
(* Create, Import, Read and Update in which the resource has an ID, the ID *)
(* equals the name attribute; importing by domain name sets name to the    *)
(* imported ID.                                                            *)
C19_IdIsDomainName ==
    /\ (op.name \in {"create", "import", "read", "update"} /\ state.id # "") =>
          state.id = state.name
    /\ op.name = "import" => (state.id = op.plan.name /\ state.name = state.id)

----------------------------------------------------------------------------
----------------------------------------------------------------------------
\* A credential that is unknown, or empty after the configuration and the
\* environment variable have been applied.
EffectiveCredentialBad(cfgv, envv) ==
    \/ cfgv = Unknown
    \/ cfgv = ""
    \/ cfgv = Null /\ envv \in {Unset, ""}

\* C21: if the effective username or password is unknown or empty after
\* applying configuration and environment variables, provider configuration
\* reports an error, creates no client and issues no RPC (account.login is
\* never sent).
C21_NoCredentialsNoClient ==
    (/\ cfgpc # "credentials"
     /\ \/ EffectiveCredentialBad(config.username, config.envUsername)
        \/ EffectiveCredentialBad(config.password, config.envPassword))
    => /\ diags = "error"
       /\ ~client
       /\ rpcs = <<>>

\* Configure has returned for a configuration whose password comes out empty
\* from an empty INWX_PASSWORD while the username is given.
C21_Witness ==
    /\ cfgpc = "failed"
    /\ config.username = "user"
    /\ config.password = Null
    /\ config.envPassword = ""
    /\ diags = "error"
    /\ rpcs = <<>>

----------------------------------------------------------------------------
\* account.info was answered with code 2200 while a non-empty TAN is configured.
LockedWithTan ==
    /\ Len(rpcs) >= 2
    /\ rpcs[2].method = "account.info"
    /\ ~rpcs[2].outcome.err
    /\ rpcs[2].outcome.code = 2200
    /\ EffectiveTan(config) # ""

\* C22: when account.info answers with code 2200 and a non-empty TAN is
\* configured, account.unlock is invoked exactly once with that TAN, and the
\* configuration hands out the client only if the unlock call returned without
\* transport error and with code 1000; otherwise it fails with an error.
C22_UnlockOnceThenClient ==
    (LockedWithTan /\ cfgpc \in {"done", "failed", "crashed"})
    => /\ CountMethod(rpcs, "account.unlock") = 1
       /\ rpcs[3].method = "account.unlock"
       /\ rpcs[3].params = [tan |-> EffectiveTan(config)]
       /\ IF ~rpcs[3].outcome.err /\ rpcs[3].outcome.code = COMMAND_SUCCESSFUL
          THEN client /\ cfgpc = "done"
          ELSE ~client /\ cfgpc = "failed" /\ diags = "error"

\* The SDK provider, whose TAN came from INWX_TAN, sent account.unlock after a
\* 2200 answer, got 1001 back and failed the configuration.
C22_Witness ==
    /\ LockedWithTan
    /\ config.impl = "sdk"
    /\ config.tan = Null
    /\ cfgpc = "failed"
    /\ Len(rpcs) = 3
    /\ rpcs[3].method = "account.unlock"
    /\ rpcs[3].params.tan = "envtan"
    /\ rpcs[3].outcome.code = COMMAND_SUCCESSFUL_PENDING

----------------------------------------------------------------------------
\* C23: the client mutex is released on every return path of _Call (success,
\* marshal error, cookie-save error, request error, decode error), so a failed
\* call never blocks later calls; with HTTP exchanges that terminate and a fair
\* lock, every call waiting for the lock eventually runs and returns.
C23_MutexReleasedCallsReturn ==
    /\ [](\A p \in Procs : cpc[p] = "idle" => mu # p)
    /\ \A p \in Procs : (cpc[p] = "lock") ~> (cpc[p] = "idle")

\* A call has failed in decoding and returned; the other goroutine, whose call
\* had to wait, now holds the mutex.
C23_Witness ==
    /\ cpc[1] = "idle"
    /\ cres[1].err = "unmarshal"
    /\ mu = 2
    /\ cpc[2] = "marshal"

----------------------------------------------------------------------------
\* C24: in _Call, if saving the cookie jar fails before the request is built,
\* no HTTP request is sent and the call returns an error; if saving fails
\* after the response was received, the call returns an error and no
\* response, although the request has been sent and answered.
C24_CookieSaveFailure ==
    [][\A p \in Procs :
          (cpc'[p] = "idle" /\ cres'[p].err = "save cookies")
          => /\ ~cres'[p].response
             /\ \/ cpc[p] = "save1" /\ posts'[p] = 0
                \/ cpc[p] = "save2" /\ posts'[p] = 1 /\ p \notin inflight
                \/ cpc[p] = "idle" /\ UNCHANGED <<cres[p], posts[p]>>]_vars

\* A call that expects a response body was sent and answered, then failed in
\* the second cookie save.
C24_Witness ==
    /\ cpc[1] = "idle"
    /\ creq[1].expectResponseBody
    /\ cres[1] = [err |-> "save cookies", response |-> FALSE]
    /\ posts[1] = 1

----------------------------------------------------------------------------
\* The update changes the attribute that cannot be updated in place: the type
\* of a contact, the name of a domain.
FixedAttributeChanged(o) ==
    IF "type" \in DOMAIN o.plan
    THEN o.plan.type # o.prior.type
    ELSE o.plan.name # o.prior.name

\* C25: an Update of a contact whose type changed, and an SDK Update of a
\* domain whose name changed, returns an error before any RPC is issued: no
\* contact.update / domain.update call is sent and the registrar's record is
\* unchanged.
C25_FixedAttributeUpdateRejected ==
    [][(nops' = nops + 1 /\ op'.name = "update" /\ FixedAttributeChanged(op'))
       => /\ diags' = "error"
          /\ rpcs' = <<>>
          /\ remote' = remote]_vars

\* An update that changed only the type of the tracked contact was rejected.
C25_Witness ==
    /\ op.name = "update"
    /\ "type" \in DOMAIN op.plan
    /\ op.plan.type # op.prior.type
    /\ op.plan.name = op.prior.name
    /\ diags = "error"
    /\ rpcs = <<>>

----------------------------------------------------------------------------
\* C26: glue record Update and Delete always send host.update / host.delete
\* with roId equal to the second component of the composite state ID, for
\* every combination of the optional hostname and testing attributes (the
\* state ID being one that has two components).
C26_RoIdFromStateId ==
    (op.name \in {"update", "delete"} /\ ~resourceGlueRecordParseId(op.prior.id).err)
    => /\ Len(rpcs) = 1
       /\ rpcs[1].method = (IF op.name = "update" THEN "host.update" ELSE "host.delete")
       /\ rpcs[1].params.roId = StringParam(resourceGlueRecordParseId(op.prior.id).second)

----------------------------------------------------------------------------
\* C27: DNSSEC key Create takes the digest as the fourth space-separated field
\* of the ds value returned by dnssec.adddnskey; if ds does not have exactly
\* four fields, Create reports an error, issues no dnssec.listkeys call and
\* writes neither digest nor ID to state.
C27_DigestIsFourthDsField ==
    (op.name = "create" /\ Len(rpcs) >= 1 /\ AnswerOk(rpcs[1].outcome)) =>
        LET parts == Split(op.ds, " ")
        IN IF Len(parts) = 4
           THEN /\ Len(rpcs) = 2
                /\ rpcs[2].method = "dnssec.listkeys"
                /\ rpcs[2].params.digest = parts[4]
                /\ state.id # <<>> => state.digest = parts[4]
           ELSE /\ diags = "error"
                /\ CountMethod(rpcs, "dnssec.listkeys") = 0
                /\ state = NoKeyState

\* A create whose ds value had five fields was rejected after dnssec.adddnskey.
C27_Witness ==
    /\ op.name = "create"
    /\ Len(rpcs) >= 1
    /\ AnswerOk(rpcs[1].outcome)
    /\ Len(Split(op.ds, " ")) = 5
    /\ diags = "error"
    /\ Len(rpcs) = 1

----------------------------------------------------------------------------
\* C28: the framework Update handlers of resources that do not support
\* updates issue no RPC: nameserver zone Update and DNSSEC key Update return
\* with the state equal to the prior state (plus a warning), automated DNSSEC
\* Update does nothing, and nameserver record Update returns an error.
C28_UnsupportedUpdateSendsNothing ==
    op.name = "update" =>
        /\ rpcs = <<>>
        /\ state = op.prior
        /\ remote = [id |-> op.prior.id, value |-> op.prior.value]
        /\ op.prior.res \in {"inwx_nameserver", "inwx_dnssec_key"}
             => diags \in {"warning", "warning, error"}
        /\ op.prior.res = "inwx_automated_dnssec" => diags = "none"
        /\ op.prior.res = "inwx_nameserver_record" => diags = "error"

\* The Update of a nameserver zone with a changed attribute returned with a
\* warning and the prior state.
C28_Witness ==
    /\ op.name = "update"
    /\ op.prior.res = "inwx_nameserver"
    /\ op.plan.value # op.prior.value
    /\ state = op.prior
    /\ diags = "warning"
    /\ rpcs = <<>>

----------------------------------------------------------------------------
\* The e-mail address an SOA rname encodes: the first dot that no backslash
\* precedes separates the local part, in which "\." stands for a dot, from
\* the domain.
FirstUnescapedDot(s) ==
    LET dots == {i \in 1..Len(s) : s[i] = "." /\ (i = 1 \/ s[i - 1] # "\\")}
    IN IF dots = {} THEN 0 ELSE CHOOSE i \in dots : \A j \in dots : i <= j

EncodedEmail(s) ==
    LET i == FirstUnescapedDot(s)
    IN ReplaceAll(SubSeq(s, 1, i - 1), <<"\\", ".">>, <<".">>) \o <<"@">> \o SubSeq(s, i + 1, Len(s))

\* C29: transformRname converts an SOA rname into the e-mail address it
\* encodes: the local part is everything before the first unescaped dot with
\* every escaped dot "\." turned into ".", followed by "@" and the remaining
\* labels; an rname without a dot is returned unchanged. Nameserver Read
\* stores this value as soa_mail.
C29_SoaMailIsEncodedEmail ==
    (op.name = "read" /\ AnswerOk(rpcs[1].outcome)) =>
        IF IndexOf(remote.rname, ".") = 0
        THEN state.soa_mail = remote.rname
        ELSE FirstUnescapedDot(remote.rname) # 0
               => state.soa_mail = EncodedEmail(remote.rname)

====
